---- MODULE Spec2Model ----
(***************************************************************************)
(* LMS Speaks: the OpenAI-compatible TTS HTTP server (TtsServer), the OS   *)
(* speech engine (SystemTtsEngine) and the remote engine                   *)
(* (LmStudioTtsEngine).                                                    *)
(*                                                                         *)
(* Several state machines share this module:                               *)
(*   SpecServer   the POST /v1/audio/speech handler of TtsServer, run by   *)
(*                several requests at once against an arbitrary TtsEngine; *)
(*   SpecAnswers  the same handler with every kind of input and failure;   *)
(*   SpecEngine   one SystemTtsEngine.synthesize call with its scratch     *)
(*                files, its spawned processes and their events;           *)
(*   SpecLive     one request served by such a call, with fairness;        *)
(*   SpecPaths    the scratch paths of overlapping synthesize calls;       *)
(*   SpecVoices   listVoices;                                              *)
(*   SpecModels   GET /v1/models;                                          *)
(*   SpecRoutes   the four routes of TtsServer side by side;               *)
(*   SpecShutdown the SIGINT/SIGTERM handler installed by main;            *)
(*   SpecRequest  one request from its body to the spawned command;        *)
(*   SpecLm       the synthesize calls of one LmStudioTtsEngine.           *)
(* Node runs each callback to its next await without interruption, so an   *)
(* action is one such run-to-completion step.                              *)
(***************************************************************************)
EXTENDS Integers, Sequences, FiniteSets, TLC

VARIABLES
    maxConcurrency,        \* TtsServer.maxConcurrency (constructor option)
    activeSynthesisCount,  \* TtsServer.activeSynthesisCount
    reqs,                  \* the speech requests being handled, by slot
    os,                    \* SystemTtsEngine.os
    call,                  \* position of the synthesize call
    promise,               \* the promise built by the platform strategy
    result,                \* what synthesize returned to its caller
    eventHandled,          \* synthesizeLinux's eventHandled flag
    procs,                 \* the spawned processes and their events
    files,                 \* the scratch paths of the attempt
    unlinkPending,         \* un-awaited unlink(outputPath) calls in flight
    swallowed,             \* unlink rejections absorbed by .catch(() => {})
    voicesPromise,         \* the promise returned by listVoices
    listProcs,             \* the processes spawned by listVoices
    listHandled,           \* listVoicesLinux's eventHandled flag
    request,               \* a speech request as its caller wrote it
    opts,                  \* the SynthesisOptions handed to engine.synthesize
    command,               \* what the engine hands to spawn for it
    response,              \* the engine's result and the server's answer
    lmConfig,              \* LmStudioTtsEngine.client and .modelKey
    modelLoaded,           \* LmStudioTtsEngine.modelLoaded
    lmCalls,               \* the calls of LmStudioTtsEngine.synthesize
    attempts,              \* overlapping synthesize calls and their scratch names
    issued,                \* the identifiers randomUUID has returned
    touched,               \* which attempt read, wrote or deleted which path
    modelsEngine,          \* what engine.listModels of the server's engine is
    modelsReqs,            \* the GET /v1/models requests
    probes,                \* the GET /health and GET /v1/audio/voices requests
    mode,                  \* main runs standalone or as a plugin
    isShuttingDown,        \* the flag of main's shutdown handler
    signals,               \* the SIGINT and SIGTERM deliveries so far
    runs,                  \* where each invocation of shutdown stands
    httpServer,            \* TtsServer.server: listening, closing or closed
    stopCalls,             \* invocations of server.stop()
    disposeCalls,          \* invocations of client[Symbol.asyncDispose]()
    exited                 \* process.exit has been called

serverVars == <<maxConcurrency, activeSynthesisCount, reqs>>
engineVars == <<os, call, promise, result, eventHandled, procs, files,
                unlinkPending, swallowed>>
voiceVars == <<voicesPromise, listProcs, listHandled>>
requestVars == <<request, opts, command, response>>
lmVars == <<lmConfig, modelLoaded, lmCalls>>
pathVars == <<attempts, issued, touched>>
modelVars == <<modelsEngine, modelsReqs>>
routeVars == <<probes>>
shutdownVars == <<mode, isShuttingDown, signals, runs, httpServer, stopCalls,
                  disposeCalls, exited>>
vars == <<maxConcurrency, activeSynthesisCount, reqs,
          os, call, promise, result, eventHandled, procs, files,
          unlinkPending, swallowed,
          voicesPromise, listProcs, listHandled,
          request, opts, command, response,
          lmConfig, modelLoaded, lmCalls,
          attempts, issued, touched,
          modelsEngine, modelsReqs,
          probes,
          mode, isShuttingDown, signals, runs, httpServer, stopCalls,
          disposeCalls, exited>>

----------------------------------------------------------------------------
(* Bounds *)

MaxCeiling == 2      \* largest maxConcurrency tried
MaxRequests == 3     \* request slots handled at once
MaxByte == 2         \* distinct audio contents a process may write
MaxLines == 2        \* lines of output of a voice-listing tool
MaxAnswerSlots == 2  \* request slots when every kind of input is tried
MaxGets == 2         \* GET /v1/models requests handled at once
MaxModels == 2       \* entries of a model list an engine returns
MaxProbes == 1       \* GET requests of each other route handled at once
MaxSignals == 4      \* SIGINT and SIGTERM deliveries to one process
MaxAttempts == 2     \* overlapping calls of SystemTtsEngine.synthesize
MaxUuids == 3        \* identifiers randomUUID can choose from
MaxLmCalls == 2      \* calls of LmStudioTtsEngine.synthesize on one engine
MaxSpeedQ == 18      \* largest request speed tried, in quarters (4.5)
NegSpeedQ == 6       \* most negative request speed tried, in quarters (-1.5)

----------------------------------------------------------------------------
(* TtsServer: POST /v1/audio/speech *)

Slots == 1..MaxRequests

\* req.body.input: a short text, the string "  ", no such field, and a text
\* of 4097 characters
Inputs == {"text", "blank", "missing", "tooLong"}

\* the same, and a number, the string "" and a text of 4096 characters
AllInputs == Inputs \cup {"number", "empty", "max"}

MaxInputLength == 4096

\* typeof input === "string"
IsStringInput(input) == input \notin {"missing", "number"}

\* input.trim() === ""
TrimsToEmpty(input) == input \in {"blank", "empty"}

\* input.length
InputLength(input) ==
    CASE input = "empty" -> 0
      [] input = "blank" -> 2
      [] input = "text" -> 5
      [] input = "max" -> 4096
      [] input = "tooLong" -> 4097
      [] OTHER -> 0

InputEmptyOnly(input) == IsStringInput(input) /\ TrimsToEmpty(input)

\* typeof input !== "string" || input.trim() === ""
InputMissingOrEmpty(input) == ~IsStringInput(input) \/ TrimsToEmpty(input)

\* input.length > 4096
InputTooLong(input) == InputLength(input) > MaxInputLength

\* error.message of the two 400 answers
InvalidMessage(input) ==
    IF InputMissingOrEmpty(input)
    THEN "Missing or empty required field: 'input'."
    ELSE "Field 'input' exceeds maximum length of 4096 characters."

NothingThrown == [isError |-> FALSE, message |-> "none"]

\* an Error as SystemTtsEngine rejects with
ExitCodeError == [isError |-> TRUE, message |-> "espeak-ng exited with code 1"]

\* what engine.synthesize may fail with: an Error, or any other thrown value
EngineErrors == {ExitCodeError, [isError |-> FALSE, message |-> "disk full"]}

\* what a throwing res.set or res.send throws
SendError == [isError |-> TRUE, message |-> "write after end"]

CatchMessageAlwaysGeneric(err) == "TTS synthesis failed."

\* err instanceof Error ? err.message : "TTS synthesis failed."
CatchMessage(err) == IF err.isError THEN err.message ELSE "TTS synthesis failed."

NoResponse == [status |-> 0, type |-> "none"]

InvalidRequest == [status |-> 400, type |-> "invalid_request_error"]

RateLimitedAsServerError == [status |-> 500, type |-> "server_error"]

RateLimited == [status |-> 429, type |-> "rate_limit_error"]

ServerError == [status |-> 500, type |-> "server_error"]

AudioSent == [status |-> 200, type |-> "none"]

\* What the engine does with a synthesize call, and what the response write
\* does afterwards.
EngineOutcomes == {"resolves", "rejects", "throwsSync"}

SendOutcomes == {"ok", "throwsBeforeHeaders", "throwsAfterHeaders"}

IdleRequest ==
    [pc |-> "idle", input |-> "missing", resp |-> NoResponse, admitted |-> FALSE,
     synthCalls |-> 0, incs |-> 0, decs |-> 0, engine |-> "none",
     send |-> "none", param |-> "none", message |-> "none",
     thrown |-> NothingThrown, atCeiling |-> FALSE]

AtCapacityOffByOne(count, ceiling) == count > ceiling

\* the concurrency guard: this.activeSynthesisCount >= this.maxConcurrency
AtCapacity(count, ceiling) == count >= ceiling

AcquireForgotten(count) == count

\* this.activeSynthesisCount++
Acquire(count) == count + 1

RefusalCeilingFirst(input, count, ceiling) ==
    IF AtCapacity(count, ceiling) THEN "busy"
    ELSE IF InputMissingOrEmpty(input) \/ InputTooLong(input) THEN "invalid"
    ELSE "none"

\* the early returns of the speech route in the order of the handler: the two
\* checks of input, then the concurrency guard
Refusal(input, count, ceiling) ==
    IF InputMissingOrEmpty(input) \/ InputTooLong(input) THEN "invalid"
    ELSE IF AtCapacity(count, ceiling) THEN "busy"
    ELSE "none"

ReleaseOnSuccessOnly(count, threw) == IF threw THEN count ELSE count - 1

\* finally { this.activeSynthesisCount--; } : runs whether or not the try
\* block (or the catch block) threw
Release(count, threw) == count - 1

\* the response after try { ... res.send } catch { res.status(500).json }:
\* the catch runs only when the try block threw, and its own write throws
\* when the headers have already gone out
CatchResponse(tryThrew, headersSent, sent) ==
    IF ~tryThrew THEN sent
    ELSE IF headersSent THEN sent
    ELSE ServerError

\* A request arrives and its handler runs up to the await of
\* engine.synthesize, or to its return.
SpeechArrive(r, input, eng, err) ==
    /\ reqs[r].pc \in {"idle", "done"}
    /\ LET fresh == [IdleRequest EXCEPT
                        !.input = input,
                        !.atCeiling = activeSynthesisCount >= maxConcurrency]
           refusal == Refusal(input, activeSynthesisCount, maxConcurrency)
       IN
       IF refusal = "invalid"
       THEN /\ reqs' = [reqs EXCEPT ![r] =
                          [fresh EXCEPT !.pc = "done", !.resp = InvalidRequest,
                                        !.param = "input",
                                        !.message = InvalidMessage(input)]]
            /\ UNCHANGED activeSynthesisCount
       ELSE IF refusal = "busy"
       THEN /\ reqs' = [reqs EXCEPT ![r] =
                          [fresh EXCEPT !.pc = "done", !.resp = RateLimited,
                                        !.param = "null",
                                        !.message = "Too many concurrent synthesis requests"]]
            /\ UNCHANGED activeSynthesisCount
       ELSE IF eng = "throwsSync"
       THEN \* synthesize threw before returning a promise: catch, then finally
            /\ reqs' = [reqs EXCEPT ![r] =
                          [fresh EXCEPT !.pc = "done", !.admitted = TRUE,
                                        !.synthCalls = 1, !.incs = 1,
                                        !.engine = eng,
                                        !.decs = Acquire(activeSynthesisCount)
                                                 - Release(Acquire(activeSynthesisCount), TRUE),
                                        !.resp = CatchResponse(TRUE, FALSE, NoResponse),
                                        !.param = "null",
                                        !.thrown = err,
                                        !.message = CatchMessage(err)]]
            /\ activeSynthesisCount' = Release(Acquire(activeSynthesisCount), TRUE)
       ELSE /\ reqs' = [reqs EXCEPT ![r] =
                          [fresh EXCEPT !.pc = "awaiting", !.admitted = TRUE,
                                        !.synthCalls = 1, !.incs = 1]]
            /\ activeSynthesisCount' = Acquire(activeSynthesisCount)
    /\ UNCHANGED maxConcurrency

\* The promise of engine.synthesize settles and the handler resumes.
SynthesisSettle(r, eng, send, err) ==
    /\ reqs[r].pc = "awaiting"
    /\ eng \in {"resolves", "rejects"}
    /\ LET tryThrew == eng = "rejects" \/ send # "ok"
           headersSent == eng = "resolves" /\ send = "throwsAfterHeaders"
           sent == IF eng = "resolves" /\ send # "throwsBeforeHeaders"
                   THEN AudioSent ELSE NoResponse
           thrown == IF eng = "rejects" THEN err ELSE SendError
           caught == tryThrew /\ ~headersSent
       IN
       /\ reqs' = [reqs EXCEPT ![r].pc = "done",
                               ![r].engine = eng,
                               ![r].send = IF eng = "resolves" THEN send ELSE "none",
                               ![r].decs = @ + (activeSynthesisCount
                                                - Release(activeSynthesisCount, tryThrew)),
                               ![r].resp = CatchResponse(tryThrew, headersSent, sent),
                               ![r].param = IF caught THEN "null" ELSE "none",
                               ![r].thrown = IF tryThrew THEN thrown ELSE NothingThrown,
                               ![r].message = IF caught THEN CatchMessage(thrown)
                                              ELSE "none"]
       /\ activeSynthesisCount' = Release(activeSynthesisCount, tryThrew)
    /\ UNCHANGED maxConcurrency

NextServer ==
    \/ \E r \in Slots, input \in Inputs, eng \in EngineOutcomes :
         SpeechArrive(r, input, eng, ExitCodeError) /\ UNCHANGED <<engineVars, voiceVars, requestVars, lmVars, pathVars, modelVars, routeVars, shutdownVars>>
    \/ \E r \in Slots, eng \in EngineOutcomes, send \in SendOutcomes :
         SynthesisSettle(r, eng, send, ExitCodeError) /\ UNCHANGED <<engineVars, voiceVars, requestVars, lmVars, pathVars, modelVars, routeVars, shutdownVars>>

\* the same route with every kind of input and of engine failure, on fewer
\* slots
AnswerSlots == 1..MaxAnswerSlots

NextAnswers ==
    \/ \E r \in AnswerSlots, input \in AllInputs, eng \in EngineOutcomes,
          err \in EngineErrors :
         SpeechArrive(r, input, eng, err)
         /\ UNCHANGED <<engineVars, voiceVars, requestVars, lmVars, pathVars, modelVars, routeVars, shutdownVars>>
    \/ \E r \in AnswerSlots, eng \in EngineOutcomes, send \in SendOutcomes,
          err \in EngineErrors :
         SynthesisSettle(r, eng, send, err)
         /\ UNCHANGED <<engineVars, voiceVars, requestVars, lmVars, pathVars, modelVars, routeVars, shutdownVars>>

----------------------------------------------------------------------------
(* Claims about the admission gate of TtsServer (checked under SpecServer) *)

\* the speech requests whose engine.synthesize call has not settled yet
Pending == Cardinality({r \in Slots : reqs[r].pc = "awaiting"})

\* slot r takes a new request in this step
Arrives(r) == reqs[r].pc \in {"idle", "done"} /\ reqs'[r] # reqs[r]

\* the synthesis awaited by slot r settles in this step
Settles(r) == reqs[r].pc = "awaiting" /\ reqs'[r].pc = "done"

\* C1: in every reachable state 0 <= activeSynthesisCount <= maxConcurrency,
\* whatever the interleaving of arrivals and synthesis completions.
C1_CountWithinCeiling ==
    /\ activeSynthesisCount >= 0
    /\ activeSynthesisCount <= maxConcurrency

\* the ceiling is reached and a further arrival has been turned away
C1_Witness ==
    /\ maxConcurrency > 0
    /\ activeSynthesisCount = maxConcurrency
    /\ \E r \in Slots : reqs[r].resp = RateLimited

\* C2: a valid request arriving while activeSynthesisCount >= maxConcurrency
\* is answered 429, engine.synthesize is not called for it, its handler is
\* over (so nothing decrements later) and the counter is left unchanged.
C2_RefusalLeavesCounter ==
    [][\A r \in Slots :
         (/\ Arrives(r)
          /\ reqs'[r].input = "text"
          /\ activeSynthesisCount >= maxConcurrency)
         => /\ reqs'[r].resp = RateLimited
            /\ reqs'[r].pc = "done"
            /\ reqs'[r].synthCalls = 0
            /\ reqs'[r].incs = 0
            /\ reqs'[r].decs = 0
            /\ activeSynthesisCount' = activeSynthesisCount]_vars

\* a request was refused while every ticket was out
C2_Witness ==
    /\ maxConcurrency > 0
    /\ Pending = maxConcurrency
    /\ \E r \in Slots : reqs[r].resp = RateLimited /\ reqs[r].synthCalls = 0

\* C3: an admitted request has decremented the counter exactly once when its
\* synthesis attempt has ended (resolved, rejected, thrown synchronously, or
\* with a throwing response write) and not at all before; a request answered
\* 400 or 429 never decrements it.
C3_ReleasedExactlyOnce ==
    \A r \in Slots :
        /\ (reqs[r].admitted /\ reqs[r].pc = "done") => reqs[r].decs = 1
        /\ reqs[r].pc = "awaiting" => (reqs[r].admitted /\ reqs[r].decs = 0)
        /\ reqs[r].resp.status \in {400, 429}
              => (~reqs[r].admitted /\ reqs[r].decs = 0)

\* a rejected synthesis, a synchronous throw and a throwing response write
\* have all been through the finally block
C3_Witness ==
    /\ \E r \in Slots : reqs[r].pc = "done" /\ reqs[r].engine = "rejects"
    /\ \E r \in Slots : reqs[r].pc = "done" /\ reqs[r].engine = "throwsSync"
    /\ \E r \in Slots : reqs[r].pc = "done" /\ reqs[r].send = "throwsAfterHeaders"

\* C4: with N = maxConcurrency, a valid arrival is admitted exactly when fewer
\* than N syntheses are pending and refused with 429 when N are; a completion
\* frees exactly one place, so after one completion at the ceiling one more
\* request is admitted and the next is refused.
C4_GateFollowsPending ==
    [][/\ \A r \in Slots :
            (Arrives(r) /\ reqs'[r].input = "text")
            => IF Pending < maxConcurrency
               THEN /\ reqs'[r].admitted
                    /\ reqs'[r].resp.status # 429
                    /\ reqs'[r].pc = "awaiting" => Pending' = Pending + 1
               ELSE /\ reqs'[r].resp = RateLimited
                    /\ Pending' = Pending
       /\ \A r \in Slots :
            Settles(r) => /\ Pending' = Pending - 1
                          /\ activeSynthesisCount' = Pending']_vars

\* one synthesis has completed, the place it freed is taken again and a
\* later request has been refused
C4_Witness ==
    /\ maxConcurrency > 0
    /\ Pending = maxConcurrency
    /\ \E r \in Slots : reqs[r].pc = "done" /\ reqs[r].resp = AudioSent
    /\ \E r \in Slots : reqs[r].resp = RateLimited

\* C33: in every reachable state activeSynthesisCount equals the number of
\* speech requests that have been admitted and whose engine.synthesize call
\* has not settled yet; so whenever no synthesis is pending the counter is 0,
\* after any history of successes, failures and refusals.
C33_CounterIsPending ==
    /\ activeSynthesisCount =
         Cardinality({r \in Slots : reqs[r].admitted /\ reqs[r].pc = "awaiting"})
    /\ Pending = 0 => activeSynthesisCount = 0

\* a success, a failure and a refusal are behind and nothing is pending
C33_Witness ==
    /\ Pending = 0
    /\ activeSynthesisCount = 0
    /\ \E r, q, t \in Slots :
         /\ reqs[r].resp = AudioSent
         /\ reqs[q].resp = ServerError /\ reqs[q].engine = "rejects"
         /\ reqs[t].resp = RateLimited

\* C5 as stated: 429 rate_limit_error only for a request refused by the
\* guard, 500 server_error only for an admitted request whose
\* engine.synthesize failed.
C5_AsStated ==
    \A r \in Slots :
        /\ reqs[r].resp.status = 429
              => (reqs[r].resp = RateLimited /\ ~reqs[r].admitted)
        /\ reqs[r].resp.status = 500
              => /\ reqs[r].resp = ServerError
                 /\ reqs[r].admitted
                 /\ reqs[r].engine \in {"rejects", "throwsSync"}

\* C5 amended: 429 rate_limit_error only for a request refused by the guard
\* (engine.synthesize never called); 500 server_error only for an admitted
\* request whose try block threw, that is whose engine.synthesize failed or
\* whose response write threw; an engine failure is never answered 429 and a
\* capacity refusal never 500.
C5_RefusalAndFailureDistinct ==
    \A r \in Slots :
        /\ reqs[r].resp.status = 429
              => /\ reqs[r].resp = RateLimited
                 /\ ~reqs[r].admitted
                 /\ reqs[r].synthCalls = 0
        /\ reqs[r].resp.status = 500
              => /\ reqs[r].resp = ServerError
                 /\ reqs[r].admitted
                 /\ \/ reqs[r].engine \in {"rejects", "throwsSync"}
                    \/ reqs[r].send = "throwsBeforeHeaders"
        /\ reqs[r].engine \in {"rejects", "throwsSync"}
              => reqs[r].resp = ServerError
        /\ (reqs[r].pc = "done" /\ reqs[r].input = "text" /\ ~reqs[r].admitted)
              => reqs[r].resp = RateLimited

\* a capacity refusal and an engine failure have both been answered
C5_Witness ==
    /\ \E r \in Slots : reqs[r].resp = RateLimited
    /\ \E r \in Slots : reqs[r].resp = ServerError /\ reqs[r].engine = "rejects"

----------------------------------------------------------------------------
(* SystemTtsEngine.synthesize: one attempt *)

Platforms == {"darwin", "win32", "linux"}

\* the processes of an attempt: say / powershell / espeak-ng, and espeak
ProcNames == {"primary", "fallback"}

NoError == <<"none", "none">>

\* what the message of an Error says: an exit code and diagnostic text
NoMessage == [code |-> 0, stderr |-> ""]

Unsettled ==
    [state |-> "pending", audio |-> 0, format |-> "none", err |-> NoError,
     message |-> NoMessage]

\* resolve({ audio, format: "wav" }): a promise settles once, later calls
\* of resolve or reject are no-ops
Resolve(p, audio) ==
    IF p.state = "pending"
    THEN [state |-> "resolved", audio |-> audio, format |-> "wav", err |-> NoError,
          message |-> NoMessage]
    ELSE p

\* reject(new Error(message))
RejectWith(p, err, message) ==
    IF p.state = "pending"
    THEN [state |-> "rejected", audio |-> 0, format |-> "none", err |-> err,
          message |-> message]
    ELSE p

\* reject(err)
Reject(p, err) == RejectWith(p, err, NoMessage)

\* the text a process may write to standard error
Diagnostics == {"", "voice not found"}

\* `say exited with code ${code}`, `PowerShell exited with code ${code}`,
\* `espeak-ng exited with code ${code}: ${Buffer.concat(stderr).toString()}`
\* and the same for espeak
ExitMessage(platform, proc) ==
    IF platform = "linux"
    THEN [code |-> proc.code, stderr |-> proc.stderr]
    ELSE [code |-> proc.code, stderr |-> ""]

\* What a spawned process will do: fail to start (an 'error' event; it then
\* writes nothing and closes with a non-zero code), or run, possibly write
\* the output file, and exit with a code.
Fates ==
    {f \in [err : {"none", "ENOENT", "EACCES"}, code : {0, 1}, writes : 0..MaxByte,
             stderr : Diagnostics] :
        /\ f.err # "none" => (f.code = 1 /\ f.writes = 0 /\ f.stderr = "")
        /\ f.code = 0 => f.stderr = ""}

NotSpawned ==
    [spawned |-> 0, err |-> "none", code |-> 0, writes |-> 0, stderr |-> "",
     wrote |-> FALSE, errorSeen |-> FALSE, closeSeen |-> FALSE]

\* spawn(program, args)
Spawn(old, f) ==
    [spawned |-> old.spawned + 1, err |-> f.err, code |-> f.code,
     writes |-> f.writes, stderr |-> f.stderr,
     wrote |-> FALSE, errorSeen |-> FALSE, closeSeen |-> FALSE]

NoFiles == [txt |-> FALSE, wav |-> 0, base |-> FALSE]

\* writeFile(inputFile, text) comes first on macOS and Linux only
WritesInputFile(platform) == platform \in {"darwin", "linux"}

\* the outcome of unlink(path)
UnlinkResult(exists) == IF exists THEN "ok" ELSE "ENOENT"

BestEffortPropagates(unlinkResult) == unlinkResult

\* unlink(path).catch(() => {}): the rejection is absorbed
BestEffort(unlinkResult) == "ok"

\* try { return await ... } finally { await unlink(path).catch(...) }:
\* the finally block replaces the outcome only if it throws itself
Finally(outcome, cleanup) ==
    IF cleanup = "ok" THEN outcome
    ELSE [state |-> "rejected", audio |-> 0, format |-> "none",
          err |-> <<"unlink", cleanup>>, message |-> NoMessage]

CloseNeverIgnored(handled) == FALSE

\* espeak-ng 'close' handler: if (eventHandled) return;
CloseIgnored(handled) == handled

\* espeak-ng 'error' handler: if (eventHandled) return;
ErrorIgnored(handled) == handled

FallbackCloseGuarded(handled) == handled

\* the espeak 'close' handler has no eventHandled test
FallbackCloseIgnored(handled) == FALSE

IsNotFoundAnyError(kind) == TRUE

\* (err as NodeJS.ErrnoException).code === "ENOENT"
IsNotFound(kind) == kind = "ENOENT"

ReadOutputStale(wav) == IF wav = 0 THEN 0 ELSE 1

\* readFileSync(outputPath): the bytes of the file
ReadOutput(wav) == wav

\* synthesize() is called: the scratch name is chosen and the platform
\* strategy starts.  synthesizeWindows spawns at once; the other two first
\* await writeFile.
Synthesize(f) ==
    /\ call = "idle"
    /\ IF WritesInputFile(os)
       THEN /\ call' = "writeFile"
            /\ UNCHANGED procs
       ELSE /\ call' = "awaitProc"
            /\ procs' = [procs EXCEPT !["primary"] = Spawn(@, f)]
    /\ UNCHANGED <<os, promise, result, eventHandled, files, unlinkPending, swallowed>>

\* await writeFile(inputFile, text, "utf8") completes; on success the
\* promise executor runs and spawns the primary process.  A failure is thrown
\* before the inner try block, so only the outer finally runs.
WriteFileDone(ok, f) ==
    /\ call = "writeFile"
    /\ IF ok
       THEN /\ files' = [files EXCEPT !.txt = TRUE]
            /\ procs' = [procs EXCEPT !["primary"] = Spawn(@, f)]
            /\ call' = "awaitProc"
            /\ UNCHANGED <<promise, result>>
       ELSE /\ promise' = Reject(promise, <<"writeFile", "EIO">>)
            /\ result' = Reject(promise, <<"writeFile", "EIO">>)
            /\ call' = "unlinkTmp"
            /\ UNCHANGED <<files, procs>>
    /\ UNCHANGED <<os, eventHandled, unlinkPending, swallowed>>

\* a running process writes its output file (-o / -w / SetOutputToWaveFile)
ProcWrite(p) ==
    /\ procs[p].spawned > 0
    /\ procs[p].err = "none"
    /\ procs[p].writes > 0
    /\ ~procs[p].wrote
    /\ ~procs[p].closeSeen
    /\ procs' = [procs EXCEPT ![p].wrote = TRUE]
    /\ files' = [files EXCEPT !.wav = procs[p].writes]
    /\ UNCHANGED <<os, call, promise, result, eventHandled, unlinkPending, swallowed>>

\* the 'error' event of process p is delivered
ProcError(p, f) ==
    /\ procs[p].spawned > 0
    /\ procs[p].err # "none"
    /\ ~procs[p].errorSeen
    /\ IF os = "linux" /\ p = "primary"
       THEN IF ErrorIgnored(eventHandled)
            THEN /\ procs' = [procs EXCEPT ![p].errorSeen = TRUE]
                 /\ UNCHANGED <<promise, eventHandled>>
            ELSE /\ eventHandled' = TRUE
                 /\ IF IsNotFound(procs[p].err)
                    THEN \* runFallback()
                         /\ procs' = [procs EXCEPT ![p].errorSeen = TRUE,
                                                   !["fallback"] = Spawn(@, f)]
                         /\ UNCHANGED promise
                    ELSE /\ procs' = [procs EXCEPT ![p].errorSeen = TRUE]
                         /\ promise' = Reject(promise, <<p, procs[p].err>>)
       ELSE \* proc.on("error", reject)
            /\ procs' = [procs EXCEPT ![p].errorSeen = TRUE]
            /\ promise' = Reject(promise, <<p, procs[p].err>>)
            /\ UNCHANGED eventHandled
    /\ UNCHANGED <<os, call, result, files, unlinkPending, swallowed>>

\* the 'close' event of process p is delivered (after the process has
\* finished writing)
ProcClose(p) ==
    /\ procs[p].spawned > 0
    /\ ~procs[p].closeSeen
    /\ procs[p].writes > 0 => procs[p].wrote
    /\ procs' = [procs EXCEPT ![p].closeSeen = TRUE]
    /\ LET ignored == /\ os = "linux"
                      /\ IF p = "primary" THEN CloseIgnored(eventHandled)
                                          ELSE FallbackCloseIgnored(eventHandled)
       IN
       IF ignored
       THEN UNCHANGED <<promise, eventHandled, unlinkPending>>
       ELSE /\ eventHandled' = IF os = "linux" /\ p = "primary" THEN TRUE
                                                                ELSE eventHandled
            /\ IF procs[p].code # 0
               THEN /\ promise' = RejectWith(promise, <<p, "exit">>,
                                              ExitMessage(os, procs[p]))
                    /\ UNCHANGED unlinkPending
               ELSE IF files.wav = 0
               THEN \* readFileSync throws
                    /\ promise' = Reject(promise, <<p, "readFile">>)
                    /\ UNCHANGED unlinkPending
               ELSE \* unlink(outputPath).catch(() => {}) is not awaited
                    /\ promise' = Resolve(promise, ReadOutput(files.wav))
                    /\ unlinkPending' = unlinkPending + 1
    /\ UNCHANGED <<os, call, result, files, swallowed>>

\* the awaited promise has settled: the strategy's finally block starts
\* unlink(inputFile); synthesizeWindows has none, so the finally block of
\* synthesize starts unlink(tmpFile)
AwaitResume ==
    /\ call = "awaitProc"
    /\ promise.state # "pending"
    /\ result' = promise
    /\ call' = IF WritesInputFile(os) THEN "unlinkInput" ELSE "unlinkTmp"
    /\ UNCHANGED <<os, promise, eventHandled, procs, files, unlinkPending, swallowed>>

\* finally { await unlink(inputFile).catch(() => {}); }
UnlinkInputDone ==
    /\ call = "unlinkInput"
    /\ LET u == UnlinkResult(files.txt)
       IN /\ result' = Finally(result, BestEffort(u))
          /\ swallowed' = IF u # "ok" /\ BestEffort(u) = "ok"
                          THEN swallowed + 1 ELSE swallowed
    /\ files' = [files EXCEPT !.txt = FALSE]
    /\ call' = "unlinkTmp"
    /\ UNCHANGED <<os, promise, eventHandled, procs, unlinkPending>>

\* finally { await unlink(tmpFile).catch(() => {}); } and the return
UnlinkTmpDone ==
    /\ call = "unlinkTmp"
    /\ LET u == UnlinkResult(files.base)
       IN /\ result' = Finally(result, BestEffort(u))
          /\ swallowed' = IF u # "ok" /\ BestEffort(u) = "ok"
                          THEN swallowed + 1 ELSE swallowed
    /\ files' = [files EXCEPT !.base = FALSE]
    /\ call' = "returned"
    /\ UNCHANGED <<os, promise, eventHandled, procs, unlinkPending>>

\* an un-awaited unlink(outputPath) completes
UnlinkOutputDone ==
    /\ unlinkPending > 0
    /\ unlinkPending' = unlinkPending - 1
    /\ files' = [files EXCEPT !.wav = 0]
    /\ swallowed' = IF UnlinkResult(files.wav # 0) # "ok"
                    THEN swallowed + 1 ELSE swallowed
    /\ UNCHANGED <<os, call, promise, result, eventHandled, procs>>

NextEngine ==
    \/ \E f \in Fates : Synthesize(f) /\ UNCHANGED <<serverVars, voiceVars, requestVars, lmVars, pathVars, modelVars, routeVars, shutdownVars>>
    \/ \E ok \in BOOLEAN, f \in Fates : WriteFileDone(ok, f) /\ UNCHANGED <<serverVars, voiceVars, requestVars, lmVars, pathVars, modelVars, routeVars, shutdownVars>>
    \/ \E p \in ProcNames : ProcWrite(p) /\ UNCHANGED <<serverVars, voiceVars, requestVars, lmVars, pathVars, modelVars, routeVars, shutdownVars>>
    \/ \E p \in ProcNames, f \in Fates : ProcError(p, f) /\ UNCHANGED <<serverVars, voiceVars, requestVars, lmVars, pathVars, modelVars, routeVars, shutdownVars>>
    \/ \E p \in ProcNames : ProcClose(p) /\ UNCHANGED <<serverVars, voiceVars, requestVars, lmVars, pathVars, modelVars, routeVars, shutdownVars>>
    \/ AwaitResume /\ UNCHANGED <<serverVars, voiceVars, requestVars, lmVars, pathVars, modelVars, routeVars, shutdownVars>>
    \/ UnlinkInputDone /\ UNCHANGED <<serverVars, voiceVars, requestVars, lmVars, pathVars, modelVars, routeVars, shutdownVars>>
    \/ UnlinkTmpDone /\ UNCHANGED <<serverVars, voiceVars, requestVars, lmVars, pathVars, modelVars, routeVars, shutdownVars>>
    \/ UnlinkOutputDone /\ UNCHANGED <<serverVars, voiceVars, requestVars, lmVars, pathVars, modelVars, routeVars, shutdownVars>>

----------------------------------------------------------------------------
(* Claims about the scratch files and the outcome of SystemTtsEngine.synthesize
   (checked under SpecEngine) *)

\* the call has handed its outcome back to the caller
Returned == call = "returned"

\* C6: when synthesize has returned a rejection after its scratch files were
\* created (the process was spawned and failed), none of the attempt's
\* scratch paths exists: neither the base path, nor the .txt input, nor the
\* .wav output.
C6_NoScratchAfterFailure ==
    (/\ Returned
     /\ result.state = "rejected"
     /\ procs["primary"].spawned > 0)
    => (~files.base /\ ~files.txt /\ files.wav = 0)

\* C7: when synthesize has returned successfully, the .txt input and the
\* .wav output are gone and no deletion is still in flight.
C7_CleanupBracketsSuccess ==
    (Returned /\ result.state = "resolved")
    => (~files.txt /\ files.wav = 0 /\ unlinkPending = 0)

\* C8: a failing deletion never changes the outcome: what synthesize hands
\* back is the outcome the platform strategy settled on, the same audio or
\* the same primary error.
C8_CleanupNeverMasks ==
    call \in {"unlinkInput", "unlinkTmp", "returned"} => result = promise

\* a successful call has returned although a deletion had failed
C8_Witness ==
    /\ Returned
    /\ swallowed > 0
    /\ result.state = "resolved"

\* the 'close' event of espeak-ng is delivered in this step, after its
\* ENOENT 'error' event was handled
LateCloseAfterNotFound ==
    /\ os = "linux"
    /\ procs["primary"].err = "ENOENT"
    /\ procs["primary"].errorSeen
    /\ ~procs["primary"].closeSeen
    /\ procs'["primary"].closeSeen

\* C9: one terminal outcome per call: a settled promise is never replaced by
\* a later event, a returned result never changes, and on Linux the 'close'
\* event of espeak-ng that follows its ENOENT 'error' neither settles the
\* call nor spawns espeak again.
C9_OneTerminalOutcome ==
    [][/\ promise.state # "pending" => promise' = promise
       /\ Returned => (call' = call /\ result' = result)
       /\ LateCloseAfterNotFound
             => (promise' = promise /\ procs'["fallback"] = procs["fallback"])
       /\ procs'["fallback"].spawned <= 1]_vars

\* espeak-ng delivered ENOENT and then 'close', espeak ran once, and the
\* call returned the audio
C9_Witness ==
    /\ os = "linux"
    /\ procs["primary"].err = "ENOENT"
    /\ procs["primary"].errorSeen
    /\ procs["primary"].closeSeen
    /\ procs["fallback"].spawned = 1
    /\ Returned
    /\ result.state = "resolved"

\* espeak-ng was not found and espeak wrote the output file and exited 0
FallbackSucceeded ==
    /\ os = "linux"
    /\ procs["primary"].err = "ENOENT"
    /\ procs["fallback"].spawned > 0
    /\ procs["fallback"].err = "none"
    /\ procs["fallback"].code = 0
    /\ procs["fallback"].wrote
    /\ procs["fallback"].closeSeen

\* C10: on Linux, when espeak-ng is not found and espeak exits 0 having
\* written the output file, the call resolves with that file's bytes and
\* format 'wav'.
C10_FallbackYieldsWav ==
    FallbackSucceeded
    => /\ promise.state = "resolved"
       /\ promise.audio = procs["fallback"].writes
       /\ promise.format = "wav"
       /\ Returned => result = promise

\* the fallback succeeded and the call has returned
C10_Witness == FallbackSucceeded /\ Returned

\* the processes spawned so far by the attempt
SpawnedTotal == procs["primary"].spawned + procs["fallback"].spawned

\* espeak is started at most once, only on Linux and only after espeak-ng
\* reported ENOENT; any other failure of espeak-ng rejects without a fallback;
\* a failure of espeak is the outcome of the call
FallbackOnlyAfterNotFound ==
    /\ procs["primary"].spawned <= 1
    /\ procs["fallback"].spawned <= 1
    /\ procs["fallback"].spawned > 0
          => /\ os = "linux"
             /\ procs["primary"].err = "ENOENT"
             /\ procs["primary"].errorSeen
    /\ (promise.state = "rejected" /\ promise.err[1] = "primary")
          => procs["fallback"].spawned = 0
    /\ (os = "linux" /\ procs["primary"].closeSeen /\ ~procs["primary"].errorSeen)
          => procs["fallback"].spawned = 0
    /\ (os = "linux" /\ procs["primary"].errorSeen
                     /\ procs["primary"].err # "ENOENT")
          => (procs["fallback"].spawned = 0 /\ promise.state = "rejected")
    /\ (\/ procs["fallback"].errorSeen
        \/ procs["fallback"].closeSeen /\ procs["fallback"].code # 0)
          => (promise.state = "rejected" /\ promise.err[1] = "fallback")

\* C11 as stated: the fallback rule above, and a returned attempt has
\* spawned at most 2 processes on Linux and exactly 1 on macOS and Windows.
C11_AsStated ==
    /\ FallbackOnlyAfterNotFound
    /\ Returned => IF os = "linux" THEN SpawnedTotal <= 2 ELSE SpawnedTotal = 1

\* C11 amended: the fallback rule above; a returned attempt has spawned at
\* most 2 processes on Linux, exactly 1 on Windows, and on macOS exactly 1
\* when the input file was written and none when writeFile failed (on either
\* writeFile platform a failed writeFile ends the attempt before any spawn).
C11_FallbackAtMostOnce ==
    /\ FallbackOnlyAfterNotFound
    /\ Returned
          => /\ os = "linux" => SpawnedTotal <= 2
             /\ os = "win32" => SpawnedTotal = 1
             /\ os = "darwin"
                   => SpawnedTotal = IF promise.err[1] = "writeFile" THEN 0 ELSE 1
             /\ promise.err[1] = "writeFile" => SpawnedTotal = 0

\* on Linux espeak-ng was not found, espeak ran once and failed, and its
\* failure is what the call returned
C11_Witness ==
    /\ os = "linux"
    /\ Returned
    /\ SpawnedTotal = 2
    /\ procs["fallback"].closeSeen
    /\ procs["fallback"].code # 0
    /\ result.state = "rejected"
    /\ result.err[1] = "fallback"

\* C24: on every platform, when the synthesis process exits with a
\* non-zero code, the rejection surfaced by synthesize carries both the exit
\* code and the text the process wrote to standard error.
C24_ExitCodeAndDiagnostics ==
    \A p \in ProcNames :
        (call = "returned" /\ result.state = "rejected" /\ result.err = <<p, "exit">>)
        => /\ result.message.code = procs[p].code
           /\ result.message.stderr = procs[p].stderr

\* process p has been started, no event of it has been delivered and it
\* did not fail to start: it is still running as far as the engine knows
StillRunning(p) ==
    /\ procs[p].spawned > 0
    /\ procs[p].err = "none"
    /\ ~procs[p].closeSeen

\* C35: on macOS and Linux the .txt input file of an attempt exists from
\* before the first process is spawned until the terminal outcome of the
\* attempt is decided; on Linux it is not deleted while the fallback espeak
\* process is still running, although the primary process has already
\* delivered 'error' and 'close'.
C35_InputFileOutlivesProcesses ==
    WritesInputFile(os) =>
      /\ (procs["primary"].spawned > 0 /\ promise.state = "pending") => files.txt
      /\ (procs["primary"].spawned = 0 /\ files.txt) => call = "writeFile"
      /\ StillRunning("fallback") => files.txt

\* espeak-ng was not found and its 'error' and 'close' have been delivered;
\* espeak has written its output and has not closed yet
C35_Witness ==
    /\ os = "linux"
    /\ procs["primary"].errorSeen
    /\ procs["primary"].closeSeen
    /\ StillRunning("fallback")
    /\ procs["fallback"].wrote
    /\ files.txt

\* the 'close' handler of process p runs to its end in this step
CloseHandled(p) ==
    /\ ~procs[p].closeSeen
    /\ procs'[p].closeSeen
    /\ ~(os = "linux" /\ p = "primary" /\ eventHandled)

----------------------------------------------------------------------------
(* The scratch paths of overlapping SystemTtsEngine.synthesize calls *)

AttemptIds == 1..MaxAttempts

Uuids == {ToString(i) : i \in 1..MaxUuids}

\* randomUUID(): an identifier it has not returned before
FreshUuids(given) == Uuids \ given

TmpFileFixedName(uuid) == <<"tmpdir", "lms-speaks">>

\* join(tmpdir(), `lms-speaks-${randomUUID()}`)
TmpFile(uuid) == <<"tmpdir", "lms-speaks-", uuid>>

\* `${tmpFile}.wav`
OutputPath(tmpFile) == Append(tmpFile, ".wav")

\* `${tmpFile}.txt`
InputFile(tmpFile) == Append(tmpFile, ".txt")

IdleAttempt == [pc |-> "idle", tmpFile |-> <<>>]

\* attempt a reads, writes or deletes path
Touch(a, op, path) == [by |-> a, op |-> op, path |-> path]

\* synthesize() is called: const tmpFile = join(tmpdir(), ...)
PathsStart(a, uuid) ==
    /\ attempts[a].pc = "idle"
    /\ uuid \in FreshUuids(issued)
    /\ issued' = issued \cup {uuid}
    /\ attempts' = [attempts EXCEPT ![a] =
                      [pc |-> IF WritesInputFile(os) THEN "writeFile" ELSE "spawned",
                       tmpFile |-> TmpFile(uuid)]]
    /\ UNCHANGED <<os, touched>>

\* await writeFile(inputFile, text, "utf8")
PathsWriteInput(a) ==
    /\ attempts[a].pc = "writeFile"
    /\ touched' = touched \cup {Touch(a, "write", InputFile(attempts[a].tmpFile))}
    /\ attempts' = [attempts EXCEPT ![a].pc = "spawned"]
    /\ UNCHANGED <<os, issued>>

\* the spawned tool reads the input file it was given (-f) and, when it
\* gets that far, writes the output file it was given (-o, -w, TTS_OUTPUT)
PathsToolRuns(a, writes) ==
    /\ attempts[a].pc = "spawned"
    /\ touched' = touched
         \cup (IF WritesInputFile(os)
               THEN {Touch(a, "read", InputFile(attempts[a].tmpFile))} ELSE {})
         \cup (IF writes
               THEN {Touch(a, "write", OutputPath(attempts[a].tmpFile))} ELSE {})
    /\ attempts' = [attempts EXCEPT ![a].pc = IF writes THEN "closed" ELSE "failed"]
    /\ UNCHANGED <<os, issued>>

\* close with code 0: readFileSync(outputPath); unlink(outputPath)
PathsReadOutput(a) ==
    /\ attempts[a].pc = "closed"
    /\ touched' = touched
         \cup {Touch(a, "read", OutputPath(attempts[a].tmpFile)),
               Touch(a, "delete", OutputPath(attempts[a].tmpFile))}
    /\ attempts' = [attempts EXCEPT ![a].pc = "failed"]
    /\ UNCHANGED <<os, issued>>

\* the finally blocks: unlink(inputFile) on macOS and Linux, then
\* unlink(tmpFile), and synthesize returns
PathsCleanup(a) ==
    /\ attempts[a].pc = "failed"
    /\ touched' = touched
         \cup (IF WritesInputFile(os)
               THEN {Touch(a, "delete", InputFile(attempts[a].tmpFile))} ELSE {})
         \cup {Touch(a, "delete", attempts[a].tmpFile)}
    /\ attempts' = [attempts EXCEPT ![a].pc = "returned"]
    /\ UNCHANGED <<os, issued>>

NextPaths ==
    \/ \E a \in AttemptIds, uuid \in Uuids :
         PathsStart(a, uuid)
         /\ UNCHANGED <<serverVars, voiceVars, requestVars, lmVars, modelVars, routeVars, shutdownVars>>
         /\ UNCHANGED <<call, promise, result, eventHandled, procs, files,
                        unlinkPending, swallowed>>
    \/ \E a \in AttemptIds :
         PathsWriteInput(a)
         /\ UNCHANGED <<serverVars, voiceVars, requestVars, lmVars, modelVars, routeVars, shutdownVars>>
         /\ UNCHANGED <<call, promise, result, eventHandled, procs, files,
                        unlinkPending, swallowed>>
    \/ \E a \in AttemptIds, writes \in BOOLEAN :
         PathsToolRuns(a, writes)
         /\ UNCHANGED <<serverVars, voiceVars, requestVars, lmVars, modelVars, routeVars, shutdownVars>>
         /\ UNCHANGED <<call, promise, result, eventHandled, procs, files,
                        unlinkPending, swallowed>>
    \/ \E a \in AttemptIds :
         PathsReadOutput(a)
         /\ UNCHANGED <<serverVars, voiceVars, requestVars, lmVars, modelVars, routeVars, shutdownVars>>
         /\ UNCHANGED <<call, promise, result, eventHandled, procs, files,
                        unlinkPending, swallowed>>
    \/ \E a \in AttemptIds :
         PathsCleanup(a)
         /\ UNCHANGED <<serverVars, voiceVars, requestVars, lmVars, modelVars, routeVars, shutdownVars>>
         /\ UNCHANGED <<call, promise, result, eventHandled, procs, files,
                        unlinkPending, swallowed>>

----------------------------------------------------------------------------
(* Claims about scratch paths (checked under SpecPaths) *)

\* the scratch paths of attempt a
ScratchPaths(a) ==
    IF attempts[a].pc = "idle" THEN {}
    ELSE {attempts[a].tmpFile, InputFile(attempts[a].tmpFile),
          OutputPath(attempts[a].tmpFile)}

InFlight(a) == attempts[a].pc \notin {"idle", "returned"}

\* C25: no two synthesis attempts that overlap in time share a scratch
\* path: each derives its base path from a fresh identifier, so what one
\* attempt reads, writes or deletes is never a path of another attempt.
C25_ScratchPathsDisjoint ==
    /\ \A a, b \in AttemptIds :
         (a # b /\ InFlight(a) /\ InFlight(b))
         => ScratchPaths(a) \cap ScratchPaths(b) = {}
    /\ \A t \in touched :
         /\ t.path \in ScratchPaths(t.by)
         /\ \A b \in AttemptIds \ {t.by} : t.path \notin ScratchPaths(b)

\* two attempts overlap and each has written its own files
C25_Witness ==
    \E a, b \in AttemptIds :
        /\ a # b
        /\ InFlight(a)
        /\ InFlight(b)
        /\ Touch(a, "write", OutputPath(attempts[a].tmpFile)) \in touched
        /\ Touch(b, "write", OutputPath(attempts[b].tmpFile)) \in touched

----------------------------------------------------------------------------
(* TtsServer: GET /v1/models *)

GetSlots == 1..MaxGets

\* the engine inherits TtsEngine.listModels, overrides it, or (not being a
\* TtsEngine subclass) has no such method
ModelsEngines == {"default", "override", "noMethod"}

\* the TtsModelInfo values an overriding engine may return
ModelInfos ==
    {[id |-> "orpheus", owned_by |-> "lmstudio"],
     [id |-> "tts-1", owned_by |-> "someone"]}

\* the lists of at most MaxModels of them
ModelLists == UNION {[1..n -> ModelInfos] : n \in 0..MaxModels}

\* TtsEngine.listModels
DefaultModels ==
    <<[id |-> "tts-1", owned_by |-> "lms-speaks"],
      [id |-> "tts-1-hd", owned_by |-> "lms-speaks"]>>

\* models.map((m) => ({ id, object: "model", created, owned_by }))
ModelEntries(models) ==
    [i \in DOMAIN models |->
        [id |-> models[i].id, object |-> "model", created |-> 1699000000,
         owned_by |-> models[i].owned_by]]

NoModelsAnswer == [status |-> 0, object |-> "none", data |-> <<>>]

\* res.json({ object: "list", data })
ModelsAnswer(data) == [status |-> 200, object |-> "list", data |-> data]

ModelsCatchAsError == [status |-> 500, object |-> "error", data |-> <<>>]

\* the catch block of the route: the two stub entries
ModelsCatch ==
    ModelsAnswer(<<[id |-> "tts-1", object |-> "model", created |-> 1699000000,
                    owned_by |-> "lms-speaks"],
                   [id |-> "tts-1-hd", object |-> "model", created |-> 1699000000,
                    owned_by |-> "lms-speaks"]>>)

IdleGet == [pc |-> "idle", outcome |-> "none", resp |-> NoModelsAnswer]

\* what an engine's listModels may do when called: resolve with a list,
\* resolve with something that is no array, or reject
ListModelsOutcomes(engine) ==
    IF engine = "default" THEN {"resolves"}
    ELSE {"resolves", "resolvesNoArray", "rejects"}

\* a GET /v1/models arrives; the handler runs to the await of
\* engine.listModels(), which throws a TypeError at once when the engine has
\* no such method
ModelsArrive(g) ==
    /\ modelsReqs[g].pc \in {"idle", "done"}
    /\ modelsReqs' = [modelsReqs EXCEPT ![g] =
                        IF modelsEngine = "noMethod"
                        THEN [pc |-> "done", outcome |-> "throws", resp |-> ModelsCatch]
                        ELSE [IdleGet EXCEPT !.pc = "awaiting"]]
    /\ UNCHANGED modelsEngine

\* engine.listModels() settles and the handler answers
ModelsSettle(g, outcome, models) ==
    /\ modelsReqs[g].pc = "awaiting"
    /\ outcome \in ListModelsOutcomes(modelsEngine)
    /\ modelsEngine = "default" => models = DefaultModels
    /\ modelsReqs' = [modelsReqs EXCEPT ![g] =
                        [pc |-> "done",
                         outcome |-> outcome,
                         resp |-> IF outcome = "resolves"
                                  THEN ModelsAnswer(ModelEntries(models))
                                  ELSE ModelsCatch]]
    /\ UNCHANGED modelsEngine

NextModels ==
    \/ \E g \in GetSlots :
         ModelsArrive(g)
         /\ UNCHANGED <<serverVars, engineVars, voiceVars, requestVars, lmVars, pathVars, routeVars, shutdownVars>>
    \/ \E g \in GetSlots, outcome \in {"resolves", "resolvesNoArray", "rejects"},
          models \in ModelLists \cup {DefaultModels} :
         ModelsSettle(g, outcome, models)
         /\ UNCHANGED <<serverVars, engineVars, voiceVars, requestVars, lmVars, pathVars, routeVars, shutdownVars>>

----------------------------------------------------------------------------
(* Claims about GET /v1/models (checked under SpecModels) *)

\* the ids of the entries of a response
Ids(data) == [i \in DOMAIN data |-> data[i].id]

----------------------------------------------------------------------------
(* One speech request served by a SystemTtsEngine, from admission to answer *)

\* what neither the speech route nor the engine touches
restVars == <<voiceVars, requestVars, lmVars, pathVars, modelVars, routeVars,
              shutdownVars>>

\* a valid request arrives; when it is admitted the handler calls
\* engine.synthesize, which runs to its first await
LiveArrive(f) ==
    /\ SpeechArrive(1, "text", "resolves", ExitCodeError)
    /\ IF AtCapacity(activeSynthesisCount, maxConcurrency)
       THEN UNCHANGED engineVars
       ELSE Synthesize(f)
    /\ UNCHANGED restVars

\* writeFile completes
LiveWriteFile ==
    /\ \E ok \in BOOLEAN, f \in Fates : WriteFileDone(ok, f)
    /\ UNCHANGED <<serverVars, restVars, routeVars, shutdownVars>>

\* a running process gets on with writing its output file
LiveProcWrite(p) == ProcWrite(p) /\ UNCHANGED <<serverVars, restVars, routeVars, shutdownVars>>

\* a spawned process delivers its 'error' event
LiveProcError(p) ==
    /\ \E f \in Fates : ProcError(p, f)
    /\ UNCHANGED <<serverVars, restVars, routeVars, shutdownVars>>

\* a spawned process delivers its 'close' event
LiveProcClose(p) == ProcClose(p) /\ UNCHANGED <<serverVars, restVars, routeVars, shutdownVars>>

\* the continuations after an await, and the unlink calls completing
LiveResume ==
    /\ AwaitResume \/ UnlinkInputDone \/ UnlinkTmpDone
    /\ UNCHANGED <<serverVars, restVars, routeVars, shutdownVars>>

LiveUnlinkOutput == UnlinkOutputDone /\ UNCHANGED <<serverVars, restVars, routeVars, shutdownVars>>

\* synthesize has returned: the route's await resumes with its outcome
LiveSettle(send) ==
    /\ call = "returned"
    /\ SynthesisSettle(1, IF result.state = "resolved" THEN "resolves" ELSE "rejects",
                       send, ExitCodeError)
    /\ UNCHANGED <<engineVars, restVars, routeVars, shutdownVars>>

NextLive ==
    \/ \E f \in Fates : LiveArrive(f)
    \/ LiveWriteFile
    \/ \E p \in ProcNames : LiveProcWrite(p)
    \/ \E p \in ProcNames : LiveProcError(p)
    \/ \E p \in ProcNames : LiveProcClose(p)
    \/ LiveResume
    \/ LiveUnlinkOutput
    \/ \E send \in SendOutcomes : LiveSettle(send)

\* every spawned process goes on to deliver its events, every file
\* operation completes, and a settled promise resumes its awaiter
LiveFairness ==
    /\ WF_vars(LiveWriteFile)
    /\ \A p \in ProcNames : WF_vars(LiveProcWrite(p))
    /\ \A p \in ProcNames : WF_vars(LiveProcError(p) \/ LiveProcClose(p))
    /\ WF_vars(LiveResume)
    /\ WF_vars(LiveUnlinkOutput)
    /\ WF_vars(\E send \in SendOutcomes : LiveSettle(send))

----------------------------------------------------------------------------
(* Claims about termination (checked under SpecLive) *)

\* C27: provided every spawned process eventually delivers a 'close' or
\* 'error' event and every file operation completes, every call of
\* SystemTtsEngine.synthesize eventually settles, on the fallback path too,
\* and so every admitted request eventually gives its ticket back and is
\* answered.
C27_EverySynthesisSettles ==
    /\ (call # "idle") ~> (call = "returned" /\ result.state # "pending")
    /\ (reqs[1].pc = "awaiting")
         ~> (/\ reqs[1].pc = "done"
             /\ reqs[1].resp.status # 0
             /\ activeSynthesisCount = 0)

\* an admitted request was served through the fallback binary
C27_Witness ==
    /\ reqs[1].pc = "done"
    /\ reqs[1].admitted
    /\ reqs[1].resp = AudioSent
    /\ activeSynthesisCount = 0
    /\ procs["fallback"].spawned = 1
    /\ result.state = "resolved"

----------------------------------------------------------------------------
(* listVoices of SystemTtsEngine and of LmStudioTtsEngine *)

\* A line of a listing tool's output, by the number of fields it holds:
\* "empty" is the empty string, "space" a line of white space only.
LineKinds == {"empty", "space", "one", "two", "three"}

Fields(line) ==
    CASE line = "one" -> 1
      [] line = "two" -> 2
      [] line = "three" -> 3
      [] OTHER -> 0

\* every output of at most MaxLines lines
Outputs == UNION {[1..n -> LineKinds] : n \in 0..MaxLines}

\* What a listing process will do: fail to start (Node then emits 'error'
\* and afterwards 'close', with nothing on stdout) or run and print.
ListFates == {f \in [failed : BOOLEAN, output : Outputs] : f.failed => f.output = <<>>}

ListNotSpawned ==
    [spawned |-> FALSE, failed |-> FALSE, output |-> <<>>,
     errorSeen |-> FALSE, closeSeen |-> FALSE]

\* spawn(tool, listing arguments)
ListSpawn(f) ==
    [spawned |-> TRUE, failed |-> f.failed, output |-> f.output,
     errorSeen |-> FALSE, closeSeen |-> FALSE]

NoVoices == [state |-> "pending", list |-> <<>>]

\* resolve(voices): the executors of listVoices take no reject callback
ResolveVoices(p, list) ==
    IF p.state = "pending" THEN [state |-> "resolved", list |-> list] ELSE p

ParsedVoice == [id |-> "parsed", name |-> "parsed"]

DefaultVoice == [id |-> "default", name |-> "Default"]

\* the record resolved by the 'error' handler of each platform
LabelledDefault(platform) ==
    [id |-> "default",
     name |-> CASE platform = "darwin" -> "Default (macOS)"
                [] platform = "win32" -> "Default (Windows)"
                [] OTHER -> "Default (Linux)"]

\* .filter(Boolean): the empty strings are dropped
RECURSIVE FilterBoolean(_)
FilterBoolean(lines) ==
    IF lines = <<>> THEN <<>>
    ELSE IF Head(lines) = "empty" THEN FilterBoolean(Tail(lines))
    ELSE <<Head(lines)>> \o FilterBoolean(Tail(lines))

\* .map(line => record or null).filter(v => v !== null), a line giving a
\* record when it holds at least `needed` fields
RECURSIVE MapLines(_, _)
MapLines(lines, needed) ==
    IF lines = <<>> THEN <<>>
    ELSE IF Fields(Head(lines)) >= needed
         THEN <<ParsedVoice>> \o MapLines(Tail(lines), needed)
         ELSE MapLines(Tail(lines), needed)

\* listVoicesMac: line.match(/^(\S+)\s+(\S+)/) wants two fields
ParseSay(lines) == MapLines(FilterBoolean(lines), 2)

\* listVoicesWindows: line.trim().split("|") wants a non-empty name
ParsePowerShell(lines) == MapLines(FilterBoolean(lines), 1)

\* parseEspeakVoices: .slice(1) skips the header, then parts.length >= 3
ParseEspeak(lines) ==
    MapLines(FilterBoolean(IF lines = <<>> THEN <<>> ELSE Tail(lines)), 3)

ParseOutput(platform, lines) ==
    CASE platform = "darwin" -> ParseSay(lines)
      [] platform = "win32" -> ParsePowerShell(lines)
      [] OTHER -> ParseEspeak(lines)

OrDefaultMissing(voices) == voices

\* voices.length ? voices : [{ id: "default", name: "Default" }]
OrDefault(voices) == IF Len(voices) > 0 THEN voices ELSE <<DefaultVoice>>

ListCloseNeverIgnored(handled) == FALSE

\* listVoicesLinux 'close' handler of espeak-ng: if (eventHandled) return;
ListCloseIgnored(handled) == handled

\* listVoicesLinux 'error' handler of espeak-ng: if (eventHandled) return;
ListErrorIgnored(handled) == handled

\* listVoices() is called.  LmStudioTtsEngine (no os field, os = "none"
\* here) answers at once; SystemTtsEngine spawns the platform's tool.
ListVoices(f) ==
    /\ voicesPromise.state = "pending"
    /\ ~listProcs["primary"].spawned
    /\ IF os = "none"
       THEN /\ voicesPromise' = ResolveVoices(voicesPromise, <<DefaultVoice>>)
            /\ UNCHANGED listProcs
       ELSE /\ listProcs' = [listProcs EXCEPT !["primary"] = ListSpawn(f)]
            /\ UNCHANGED voicesPromise
    /\ UNCHANGED listHandled

\* the 'error' event of listing process p is delivered
ListError(p, f) ==
    /\ listProcs[p].spawned
    /\ listProcs[p].failed
    /\ ~listProcs[p].errorSeen
    /\ IF os = "linux" /\ p = "primary"
       THEN IF ListErrorIgnored(listHandled)
            THEN /\ listProcs' = [listProcs EXCEPT ![p].errorSeen = TRUE]
                 /\ UNCHANGED <<voicesPromise, listHandled>>
            ELSE \* try plain espeak as fallback
                 /\ listHandled' = TRUE
                 /\ listProcs' = [listProcs EXCEPT ![p].errorSeen = TRUE,
                                                   !["fallback"] = ListSpawn(f)]
                 /\ UNCHANGED voicesPromise
       ELSE /\ listProcs' = [listProcs EXCEPT ![p].errorSeen = TRUE]
            /\ voicesPromise' = ResolveVoices(voicesPromise, <<LabelledDefault(os)>>)
            /\ UNCHANGED listHandled

\* the 'close' event of listing process p is delivered; for a process that
\* failed to start it follows the 'error' event
ListClose(p) ==
    /\ listProcs[p].spawned
    /\ ~listProcs[p].closeSeen
    /\ listProcs[p].failed => listProcs[p].errorSeen
    /\ listProcs' = [listProcs EXCEPT ![p].closeSeen = TRUE]
    /\ IF os = "linux" /\ p = "primary" /\ ListCloseIgnored(listHandled)
       THEN UNCHANGED <<voicesPromise, listHandled>>
       ELSE /\ listHandled' = IF os = "linux" /\ p = "primary" THEN TRUE
                                                               ELSE listHandled
            /\ voicesPromise' =
                  ResolveVoices(voicesPromise,
                                OrDefault(ParseOutput(os, listProcs[p].output)))

NextVoices ==
    \/ \E f \in ListFates : ListVoices(f) /\ UNCHANGED <<serverVars, engineVars, requestVars, lmVars, pathVars, modelVars, routeVars, shutdownVars>>
    \/ \E p \in ProcNames, f \in ListFates :
         ListError(p, f) /\ UNCHANGED <<serverVars, engineVars, requestVars, lmVars, pathVars, modelVars, routeVars, shutdownVars>>
    \/ \E p \in ProcNames : ListClose(p) /\ UNCHANGED <<serverVars, engineVars, requestVars, lmVars, pathVars, modelVars, routeVars, shutdownVars>>

----------------------------------------------------------------------------
(* Claims about the answers of the speech route (checked under SpecAnswers) *)

\* the input is missing, not a string, empty or whitespace-only, or longer
\* than 4096 characters
InvalidInput(input) ==
    \/ input \in {"missing", "number", "empty", "blank"}
    \/ InputLength(input) > 4096

\* C22: a speech request whose input is missing, not a string, empty or
\* whitespace-only, or longer than 4096 characters is answered 400 with
\* error.type invalid_request_error and error.param input; engine.synthesize
\* is not invoked for it and activeSynthesisCount is not changed.  An input
\* of exactly 4096 characters is accepted.
C22_InvalidInputRefused ==
    [][\A r \in Slots :
         /\ (Arrives(r) /\ InvalidInput(reqs'[r].input))
            => /\ reqs'[r].pc = "done"
               /\ reqs'[r].resp = InvalidRequest
               /\ reqs'[r].param = "input"
               /\ reqs'[r].synthCalls = 0
               /\ reqs'[r].incs = 0
               /\ reqs'[r].decs = 0
               /\ activeSynthesisCount' = activeSynthesisCount
         /\ (Arrives(r) /\ reqs'[r].input = "max")
            => reqs'[r].resp.status # 400]_vars

\* a text of 4096 characters is being synthesised and one of 4097 characters
\* has been refused meanwhile
C22_Witness ==
    \E r, q \in Slots :
        /\ reqs[r].input = "max"
        /\ reqs[r].pc = "awaiting"
        /\ reqs[q].input = "tooLong"
        /\ reqs[q].resp = InvalidRequest
        /\ reqs[q].param = "input"
        /\ activeSynthesisCount = 1

\* C32: validation is decided before admission: a speech request with
\* invalid input is answered 400 even when activeSynthesisCount equals
\* maxConcurrency, and 429 is returned only to requests that passed
\* validation.
C32_ValidationBeforeAdmission ==
    [][\A r \in Slots :
         Arrives(r) =>
           /\ (InvalidInput(reqs'[r].input)
               /\ activeSynthesisCount = maxConcurrency)
              => reqs'[r].resp = InvalidRequest
           /\ reqs'[r].resp = RateLimited
              => /\ ~InvalidInput(reqs'[r].input)
                 /\ activeSynthesisCount >= maxConcurrency]_vars

\* an invalid request was refused with 400 while a synthesis filled the
\* ceiling, and a valid one was refused with 429
C32_Witness ==
    /\ maxConcurrency >= 1
    /\ \E r, q \in Slots :
         /\ reqs[r].resp = InvalidRequest
         /\ reqs[r].atCeiling
         /\ reqs[q].resp = RateLimited
         /\ ~InvalidInput(reqs[q].input)

\* engine.synthesize failed for the request in slot r
EngineFailed(r) ==
    reqs[r].pc = "done" /\ reqs[r].engine \in {"rejects", "throwsSync"}

\* C23 as stated: every failure of engine.synthesize for an admitted request
\* is answered 500 with error.type server_error and the message of what the
\* engine failed with as error.message.
C23_AsStated ==
    \A r \in Slots :
        EngineFailed(r) => /\ reqs[r].resp = ServerError
                           /\ reqs[r].message = reqs[r].thrown.message

\* C23: every failure of engine.synthesize for an admitted request is
\* answered 500 with error.type server_error, never with a success and never
\* left without an answer; error.message is the engine error's message when
\* the failure is an Error and the fixed text "TTS synthesis failed."
\* otherwise.
C23_EngineFailureIs500 ==
    \A r \in Slots :
        EngineFailed(r) =>
            /\ reqs[r].admitted
            /\ reqs[r].resp = ServerError
            /\ reqs[r].resp.status \notin {0, 200}
            /\ reqs[r].message = IF reqs[r].thrown.isError
                                 THEN reqs[r].thrown.message
                                 ELSE "TTS synthesis failed."

C23_Witness ==
    \E r, q \in Slots :
        /\ EngineFailed(r)
        /\ reqs[r].thrown.isError
        /\ reqs[r].message = "espeak-ng exited with code 1"
        /\ EngineFailed(q)
        /\ ~reqs[q].thrown.isError
        /\ reqs[q].message = "TTS synthesis failed."

----------------------------------------------------------------------------
(* One speech request from the request body to the spawned command and the
   answer.  Speeds are counted in quarters: 1 is 0.25, 4 is 1.0, 16 is 4.0;
   every such speed is exact in floating point, and so is each rate below. *)

MIN_SPEED == 1

MAX_SPEED == 16

\* the speed used when the request gives none: 1.0
DefaultSpeed == 4

SUPPORTED_FORMATS == {"mp3", "opus", "aac", "flac", "wav", "pcm"}

Texts == {"Hello", "$(reboot)"}

OtherText(text) == CHOOSE t \in Texts : t # text

\* a number, or a missing or non-numeric value
SpeedValues ==
    {[kind |-> k, q |-> 0] : k \in {"absent", "string"}}
    \cup {[kind |-> "number", q |-> n] : n \in ((0 - NegSpeedQ)..MaxSpeedQ) \cup {40}}

\* req.body of POST /v1/audio/speech, with the server's defaultVoice
ServerRequests ==
    [via : {"server"}, text : Texts,
     voice : {"absent", "number", "", "  ", "default", "alice", " alice "},
     format : SUPPORTED_FORMATS \cup {"absent", "bogus"},
     speed : SpeedValues,
     defaultVoice : {"default", "", "  ", "bob"}]

\* SynthesisOptions given to SystemTtsEngine.synthesize by any other caller
DirectRequests ==
    [via : {"direct"}, text : Texts,
     voice : {"absent", "", "default", "alice", " alice "},
     format : {"absent"},
     speed : SpeedValues \ {[kind |-> "string", q |-> 0]},
     defaultVoice : {"default"}]

Min(a, b) == IF a < b THEN a ELSE b

Max(a, b) == IF a > b THEN a ELSE b

\* Math.round(n / d) for d > 0: the nearest integer, halves going up
Round(n, d) == (2 * n + d) \div (2 * d)

\* typeof v === "string"
IsString(v) == v \notin {"absent", "number"}

\* v.trim()
Trim(v) ==
    CASE v = " alice " -> "alice"
      [] v = "  " -> ""
      [] OTHER -> v

ResolvedVoiceUntrimmed(voice, defaultVoice) ==
    IF IsString(voice) /\ Trim(voice) # "" THEN voice ELSE defaultVoice

\* typeof voice === "string" && voice.trim() !== "" ? voice.trim() : defaultVoice
ResolvedVoice(voice, defaultVoice) ==
    IF IsString(voice) /\ Trim(voice) # "" THEN Trim(voice) ELSE defaultVoice

\* SUPPORTED_FORMATS.has(response_format) ? response_format : "wav"
RequestedFormat(format) ==
    IF IsString(format) /\ format \in SUPPORTED_FORMATS THEN format ELSE "wav"

ParsedSpeedNoCeiling(speed) ==
    IF speed.kind = "number" THEN Max(MIN_SPEED, speed.q) ELSE DefaultSpeed

\* typeof speed === "number" ? Math.max(MIN_SPEED, Math.min(MAX_SPEED, speed)) : 1.0
ParsedSpeed(speed) ==
    IF speed.kind = "number"
    THEN Max(MIN_SPEED, Min(MAX_SPEED, speed.q))
    ELSE DefaultSpeed

\* opts.voice ?? "default"
EngineVoice(voice) == IF voice = "absent" THEN "default" ELSE voice

\* opts.speed ?? 1.0
EngineSpeed(speed) == IF speed.kind = "number" THEN speed.q ELSE DefaultSpeed

\* voice !== "default" ? ["-v", voice] : []
VoiceArgs(voice) == IF voice # "default" THEN <<"-v", voice>> ELSE <<>>

\* Math.round(200 * speed)
MacRate(q) == Round(200 * q, 4)

LinuxRateTruncated(q) == (175 * q) \div 4

\* Math.round(175 * speed)
LinuxRate(q) == Round(175 * q, 4)

WindowsRateUnclamped(q) == Round(5 * (q - 4), 4)

\* Math.max(-10, Math.min(10, Math.round((speed - 1) * 5)))
WindowsRate(q) == Max(0 - 10, Min(10, Round(5 * (q - 4), 4)))

MacArgsWithText(text, voice, q) ==
    VoiceArgs(voice)
    \o <<"-r", ToString(MacRate(q)), "-o", "tmp.wav",
         "--data-format=LEI16@22050", text>>

\* synthesizeMac: the argument vector of say
MacArgs(text, voice, q) ==
    VoiceArgs(voice)
    \o <<"-r", ToString(MacRate(q)), "-o", "tmp.wav",
         "--data-format=LEI16@22050", "-f", "tmp.txt">>

\* synthesizeLinux: the argument vector of espeak-ng and of espeak
LinuxArgs(text, voice, q) ==
    VoiceArgs(voice)
    \o <<"-s", ToString(LinuxRate(q)), "-w", "tmp.wav", "-f", "tmp.txt">>

\* voice !== "default" ? `$s.SelectVoice($env:TTS_VOICE); ` : ""
VoiceCmd(voice) ==
    IF voice # "default" THEN "$s.SelectVoice($env:TTS_VOICE); " ELSE ""

\* synthesizeWindows: the PowerShell script, piece by piece
WindowsScript(text, voice, q) ==
    <<"Add-Type -AssemblyName System.Speech;",
      "$s = New-Object System.Speech.Synthesis.SpeechSynthesizer;",
      VoiceCmd(voice),
      "$s.Rate = ", ToString(WindowsRate(q)), ";",
      "$s.SetOutputToWaveFile($env:TTS_OUTPUT);",
      "$s.Speak($env:TTS_INPUT);",
      "$s.Dispose();">>

\* Buffer.from(script, "utf16le").toString("base64")
EncodedCommand(script) == [encoding |-> "utf16le-base64", of |-> script]

NoEncodedCommand == [encoding |-> "none", of |-> <<>>]

NoEnv == [TTS_INPUT |-> "unset", TTS_OUTPUT |-> "unset", TTS_VOICE |-> "unset"]

\* the env entries synthesizeWindows adds to process.env
WindowsEnv(text, voice) ==
    [TTS_INPUT |-> text, TTS_OUTPUT |-> "tmp.wav",
     TTS_VOICE |-> IF voice # "default" THEN voice ELSE ""]

\* what the platform strategy hands to spawn, and the input file it wrote
BuildCommand(platform, text, voice, q) ==
    CASE platform = "darwin" ->
           [program |-> "say", args |-> MacArgs(text, voice, q),
            encoded |-> NoEncodedCommand, env |-> NoEnv,
            inputFile |-> text, rate |-> MacRate(q)]
      [] platform = "win32" ->
           [program |-> "powershell",
            args |-> <<"-NoProfile", "-EncodedCommand">>,
            encoded |-> EncodedCommand(WindowsScript(text, voice, q)),
            env |-> WindowsEnv(text, voice),
            inputFile |-> "none", rate |-> WindowsRate(q)]
      [] OTHER ->
           [program |-> "espeak-ng", args |-> LinuxArgs(text, voice, q),
            encoded |-> NoEncodedCommand, env |-> NoEnv,
            inputFile |-> text, rate |-> LinuxRate(q)]

\* MIME_TYPES[format] ?? "application/octet-stream"
MimeType(format) ==
    CASE format = "mp3" -> "audio/mpeg"
      [] format = "opus" -> "audio/ogg; codecs=opus"
      [] format = "aac" -> "audio/aac"
      [] format = "flac" -> "audio/flac"
      [] format = "wav" -> "audio/wav"
      [] format = "pcm" -> "audio/pcm"
      [] OTHER -> "application/octet-stream"

HeaderFormatRequested(requested, produced) == requested

\* the format the Content-Type is looked up with: result.format
HeaderFormat(requested, produced) == produced

NoOpts ==
    [set |-> FALSE, text |-> "none", voice |-> "absent", format |-> "absent",
     speed |-> [kind |-> "absent", q |-> 0]]

NoCommand ==
    [built |-> FALSE,
     main |-> [program |-> "none", args |-> <<>>, encoded |-> NoEncodedCommand,
               env |-> NoEnv, inputFile |-> "none", rate |-> 0],
     twin |-> [program |-> "none", args |-> <<>>, encoded |-> NoEncodedCommand,
               env |-> NoEnv, inputFile |-> "none", rate |-> 0]]

NoAnswer ==
    [sent |-> FALSE, result |-> Unsettled, status |-> 0, contentType |-> "none"]

\* the speech route reads the body and calls engine.synthesize (the input is
\* valid and the request is admitted)
ServerParse ==
    /\ request.via = "server"
    /\ ~opts.set
    /\ opts' = [set |-> TRUE,
                text |-> request.text,
                voice |-> ResolvedVoice(request.voice, request.defaultVoice),
                format |-> RequestedFormat(request.format),
                speed |-> [kind |-> "number", q |-> ParsedSpeed(request.speed)]]
    /\ UNCHANGED <<request, command, response>>

\* another caller hands its options to SystemTtsEngine.synthesize as they are
DirectCall ==
    /\ request.via = "direct"
    /\ ~opts.set
    /\ opts' = [set |-> TRUE, text |-> request.text, voice |-> request.voice,
                format |-> request.format, speed |-> request.speed]
    /\ UNCHANGED <<request, command, response>>

\* SystemTtsEngine.synthesize builds the command of its platform; `twin` is
\* the command the same call builds when only the text differs
EngineBuild ==
    /\ opts.set
    /\ ~command.built
    /\ command' = [built |-> TRUE,
                   main |-> BuildCommand(os, opts.text, EngineVoice(opts.voice),
                                         EngineSpeed(opts.speed)),
                   twin |-> BuildCommand(os, OtherText(opts.text),
                                         EngineVoice(opts.voice),
                                         EngineSpeed(opts.speed))]
    /\ UNCHANGED <<request, opts, response>>

\* the synthesis succeeds and, for a server request, the audio is sent
EngineSucceed(audio) ==
    /\ command.built
    /\ ~response.sent
    /\ LET produced == Resolve(Unsettled, audio)
       IN response' =
            [sent |-> TRUE,
             result |-> produced,
             status |-> IF request.via = "server" THEN 200 ELSE 0,
             contentType |-> IF request.via = "server"
                             THEN MimeType(HeaderFormat(opts.format, produced.format))
                             ELSE "none"]
    /\ UNCHANGED <<request, opts, command>>

NextRequest ==
    \/ ServerParse /\ UNCHANGED <<serverVars, engineVars, voiceVars, lmVars, pathVars, modelVars, routeVars, shutdownVars>>
    \/ DirectCall /\ UNCHANGED <<serverVars, engineVars, voiceVars, lmVars, pathVars, modelVars, routeVars, shutdownVars>>
    \/ EngineBuild /\ UNCHANGED <<serverVars, engineVars, voiceVars, lmVars, pathVars, modelVars, routeVars, shutdownVars>>
    \/ \E audio \in 1..MaxByte :
         EngineSucceed(audio) /\ UNCHANGED <<serverVars, engineVars, voiceVars, lmVars, pathVars, modelVars, routeVars, shutdownVars>>

----------------------------------------------------------------------------
(* LmStudioTtsEngine: the ensure-model-loaded step and the speech request *)

LmCallIds == 1..MaxLmCalls

\* opts.modelKey: not given, the empty string, or a model key
ModelKeys == {"absent", "", "orpheus"}

\* a value that is truthy in `if (this.modelKey)` and `!this.modelKey`
Truthy(key) == key \notin {"absent", ""}

NoBody == [sent |-> FALSE, response_format |-> "none", model |-> "absent"]

NoLmResult == [state |-> "pending", audio |-> 0, format |-> "none", error |-> "none"]

IdleLmCall ==
    [pc |-> "idle", format |-> "absent", control |-> 0, ensureFailed |-> FALSE,
     fetches |-> 0, body |-> NoBody, fate |-> "none", actual |-> "none",
     result |-> NoLmResult]

\* what the speech endpoint does with one request: the fetch rejects, the
\* response is ok (its body readable or not), or it is not ok with a JSON
\* body carrying error.message, a JSON body whose error.message is null, a
\* JSON body without it, or no JSON body
FetchFates ==
    {"network", "ok", "okUnreadable",
     "errMessage", "errNullMessage", "errNoMessage", "errNotJson"}

\* the encoding of the bytes an ok response really carries
ActualFormats == {"wav", "mp3"}

\* res.ok
ResponseOk(fate) == fate \in {"ok", "okUnreadable"}

\* res.statusText of the non-success responses
StatusText(fate) == "Not Found"

\* await res.json() does not throw
ParsesAsJson(fate) == fate \in {"errMessage", "errNullMessage", "errNoMessage"}

\* json?.error?.message
RemoteMessage(fate) ==
    CASE fate = "errMessage" -> "model not found"
      [] fate = "errNullMessage" -> "null"
      [] OTHER -> "undefined"

DetailStatusTextOnly(fate) == StatusText(fate)

\* detail: json?.error?.message ?? res.statusText, or res.statusText when
\* res.json() throws
Detail(fate) ==
    IF ParsesAsJson(fate) /\ RemoteMessage(fate) \notin {"null", "undefined"}
    THEN RemoteMessage(fate)
    ELSE StatusText(fate)

EnsureIsNoOpForgetsLoaded == ~lmConfig.client \/ ~Truthy(lmConfig.modelKey)

\* the guard of ensureModelLoaded: nothing to do
EnsureIsNoOp == modelLoaded \/ ~lmConfig.client \/ ~Truthy(lmConfig.modelKey)

LmFormatAlwaysWav(format) == "wav"

\* const format = opts.format ?? "wav"
LmFormat(format) == IF format = "absent" THEN "wav" ELSE format

\* synthesize after `await this.ensureModelLoaded()`: build the body and
\* issue the fetch
SendSpeech(rec) ==
    [rec EXCEPT !.pc = "fetch",
                !.fetches = @ + 1,
                !.body = [sent |-> TRUE,
                          response_format |-> LmFormat(rec.format),
                          model |-> IF Truthy(lmConfig.modelKey)
                                    THEN lmConfig.modelKey ELSE "absent"]]

EnsureFailurePropagates(rec) ==
    [rec EXCEPT !.pc = "done", !.ensureFailed = TRUE,
                !.result = [NoLmResult EXCEPT !.state = "rejected",
                                              !.error = "ensureModelLoaded"]]

\* the empty catch of ensureModelLoaded: the failure is dropped and
\* synthesize goes on to the speech request
EnsureFailureSwallowed(rec) == SendSpeech([rec EXCEPT !.ensureFailed = TRUE])

\* the settlement of synthesize once the fetch has settled
LmOutcome(rec, fate, audio) ==
    CASE fate = "network" ->
           [NoLmResult EXCEPT !.state = "rejected", !.error = "fetch failed"]
      [] fate = "ok" ->
           [state |-> "resolved", audio |-> audio,
            format |-> rec.body.response_format, error |-> "none"]
      [] fate = "okUnreadable" ->
           [NoLmResult EXCEPT !.state = "rejected", !.error = "arrayBuffer"]
      [] OTHER ->
           [NoLmResult EXCEPT !.state = "rejected", !.error = Detail(fate)]

\* synthesize(opts) up to its first await that leaves the engine: either the
\* control client's listLoaded, or the fetch
LmSynthesize(c, format) ==
    /\ lmCalls[c].pc = "idle"
    /\ LET rec == [lmCalls[c] EXCEPT !.format = format]
       IN lmCalls' =
            [lmCalls EXCEPT ![c] =
                IF EnsureIsNoOp
                THEN SendSpeech(rec)
                ELSE [rec EXCEPT !.pc = "listLoaded", !.control = @ + 1]]
    /\ UNCHANGED <<lmConfig, modelLoaded>>

\* client.llm.listLoaded() settles: the model is listed, is not listed (load
\* is called), or the call throws
LmListLoaded(c, answer) ==
    /\ lmCalls[c].pc = "listLoaded"
    /\ CASE answer = "loaded" ->
              /\ modelLoaded' = TRUE
              /\ lmCalls' = [lmCalls EXCEPT ![c] = SendSpeech(@)]
         [] answer = "notLoaded" ->
              /\ lmCalls' = [lmCalls EXCEPT ![c].pc = "load", ![c].control = @ + 1]
              /\ UNCHANGED modelLoaded
         [] OTHER ->
              /\ lmCalls' = [lmCalls EXCEPT ![c] = EnsureFailureSwallowed(@)]
              /\ UNCHANGED modelLoaded
    /\ UNCHANGED lmConfig

\* client.llm.load(modelKey) settles
LmLoad(c, ok) ==
    /\ lmCalls[c].pc = "load"
    /\ IF ok
       THEN /\ modelLoaded' = TRUE
            /\ lmCalls' = [lmCalls EXCEPT ![c] = SendSpeech(@)]
       ELSE /\ lmCalls' = [lmCalls EXCEPT ![c] = EnsureFailureSwallowed(@)]
            /\ UNCHANGED modelLoaded
    /\ UNCHANGED lmConfig

\* the fetch settles and synthesize with it
LmFetch(c, fate, audio, actual) ==
    /\ lmCalls[c].pc = "fetch"
    /\ (fate = "ok") = (actual # "none")
    /\ lmCalls' = [lmCalls EXCEPT ![c].pc = "done",
                                  ![c].fate = fate,
                                  ![c].actual = actual,
                                  ![c].result = LmOutcome(lmCalls[c], fate, audio)]
    /\ UNCHANGED <<lmConfig, modelLoaded>>

NextLm ==
    \/ \E c \in LmCallIds, format \in {"absent", "mp3"} :
         LmSynthesize(c, format)
         /\ UNCHANGED <<serverVars, engineVars, voiceVars, requestVars, pathVars, modelVars, routeVars, shutdownVars>>
    \/ \E c \in LmCallIds, answer \in {"loaded", "notLoaded", "throws"} :
         LmListLoaded(c, answer)
         /\ UNCHANGED <<serverVars, engineVars, voiceVars, requestVars, pathVars, modelVars, routeVars, shutdownVars>>
    \/ \E c \in LmCallIds, ok \in BOOLEAN :
         LmLoad(c, ok)
         /\ UNCHANGED <<serverVars, engineVars, voiceVars, requestVars, pathVars, modelVars, routeVars, shutdownVars>>
    \/ \E c \in LmCallIds, fate \in FetchFates, audio \in 1..MaxByte,
          actual \in ActualFormats \cup {"none"} :
         LmFetch(c, fate, audio, actual)
         /\ UNCHANGED <<serverVars, engineVars, voiceVars, requestVars, pathVars, modelVars, routeVars, shutdownVars>>

----------------------------------------------------------------------------
(* Claims about LmStudioTtsEngine (checked under SpecLm) *)

\* the calls of synthesize that invoked the control client
ControlCallers == {c \in LmCallIds : lmCalls[c].control > 0}

\* C19: the ensure-model-loaded step is attempted at most once per engine
\* instance: over any sequence or overlap of synthesize calls, the control
\* client's listLoaded/load is invoked for at most one of them.
C19_EnsureAttemptedOnce == Cardinality(ControlCallers) <= 1

\* C20: when the ensure-model-loaded step fails, synthesize does not fail
\* for that reason: it still issues the speech request, exactly once, and
\* its outcome is decided by that request's response alone.
C20_EnsureFailureSwallowed ==
    \A c \in LmCallIds :
        lmCalls[c].ensureFailed =>
            /\ lmCalls[c].pc \in {"fetch", "done"}
            /\ lmCalls[c].fetches = 1
            /\ lmCalls[c].body.sent
            /\ lmCalls[c].pc = "done" =>
                 /\ lmCalls[c].result.state = "resolved" <=> lmCalls[c].fate = "ok"
                 /\ lmCalls[c].result.error # "ensureModelLoaded"
                 /\ \A d \in LmCallIds :
                      (lmCalls[d].pc = "done"
                       /\ lmCalls[d].fate = lmCalls[c].fate
                       /\ lmCalls[d].result.audio = lmCalls[c].result.audio
                       /\ lmCalls[d].format = lmCalls[c].format)
                      => lmCalls[d].result = lmCalls[c].result

C20_Witness ==
    \E c, d \in LmCallIds :
        /\ lmCalls[c].ensureFailed
        /\ ~lmCalls[d].ensureFailed
        /\ lmCalls[c].pc = "done"
        /\ lmCalls[d].pc = "done"
        /\ lmCalls[c].result.state = "resolved"
        /\ lmCalls[d].result = lmCalls[c].result

\* C21: each synthesize call issues exactly one outbound speech request and
\* never retries it; a non-success response makes the call reject with the
\* remote error.message when the body parses as JSON and has one, and with
\* the response status text otherwise.
C21_OneRequestAndRemoteMessage ==
    \A c \in LmCallIds :
        /\ lmCalls[c].fetches <= 1
        /\ lmCalls[c].fetches = 1 <=> lmCalls[c].pc \in {"fetch", "done"}
        /\ (lmCalls[c].pc = "done" /\ ~ResponseOk(lmCalls[c].fate)
            /\ lmCalls[c].fate # "network") =>
             /\ lmCalls[c].result.state = "rejected"
             /\ lmCalls[c].fate = "errMessage"
                  => lmCalls[c].result.error = "model not found"
             /\ lmCalls[c].fate \in {"errNullMessage", "errNoMessage", "errNotJson"}
                  => lmCalls[c].result.error = "Not Found"

C21_Witness ==
    \E c, d \in LmCallIds :
        /\ lmCalls[c].pc = "done"
        /\ lmCalls[c].fate = "errMessage"
        /\ lmCalls[c].result.error = "model not found"
        /\ lmCalls[d].pc = "done"
        /\ lmCalls[d].fate = "errNotJson"
        /\ lmCalls[d].result.error = "Not Found"
        /\ lmCalls[c].fetches = 1
        /\ lmCalls[d].fetches = 1

CallsControl(c) == lmCalls'[c].control > lmCalls[c].control

\* the ensure-model-loaded step of call c ends without a failure in this step
EnsureSucceeds(c) ==
    /\ lmCalls[c].pc \in {"listLoaded", "load"}
    /\ lmCalls'[c].pc = "fetch"
    /\ ~lmCalls'[c].ensureFailed

\* C31: ensureModelLoaded turns to the control client only when a client and
\* a modelKey are both configured and modelLoaded is false on entry;
\* modelLoaded becomes true only when listLoaded (and load, if needed) has
\* succeeded, never goes back to false, and once it is true no synthesize
\* call that starts afterwards makes any control-client call.
C31_ControlOnlyUntilLoaded ==
    [][/\ \A c \in LmCallIds :
            /\ CallsControl(c)
                 => /\ lmConfig.client
                    /\ Truthy(lmConfig.modelKey)
                    /\ lmCalls[c].pc = "idle" => ~modelLoaded
                    /\ lmCalls[c].pc # "idle" => lmCalls[c].pc = "listLoaded"
            /\ (modelLoaded /\ lmCalls[c].pc = "idle" /\ lmCalls'[c].pc # "idle")
                 => /\ lmCalls'[c].control = 0
                    /\ lmCalls'[c].pc = "fetch"
            /\ lmCalls[c].pc \in {"fetch", "done"}
                 => lmCalls'[c].control = lmCalls[c].control
       /\ (~modelLoaded /\ modelLoaded') => \E c \in LmCallIds : EnsureSucceeds(c)
       /\ modelLoaded => modelLoaded']_vars

\* one call loaded the model through listLoaded and load, and a call made
\* afterwards went straight to the speech request
C31_Witness ==
    /\ lmConfig.client
    /\ Truthy(lmConfig.modelKey)
    /\ modelLoaded
    /\ \E c, d \in LmCallIds :
         /\ lmCalls[c].control = 2
         /\ ~lmCalls[c].ensureFailed
         /\ lmCalls[d].pc = "done"
         /\ lmCalls[d].control = 0

----------------------------------------------------------------------------
(* Claims about listVoices (checked under SpecVoices) *)

\* listVoices was called and every process it spawned has reported
ListingReported ==
    \/ os = "none" /\ voicesPromise.state # "pending"
    \/ /\ listProcs["primary"].spawned
       /\ \A p \in ProcNames :
            listProcs[p].spawned => (listProcs[p].errorSeen \/ listProcs[p].closeSeen)

\* C12: listVoices of every engine never rejects and never resolves to an
\* empty list, and it has resolved as soon as the tools it spawned have
\* reported, whatever the tool's presence, events and output.
C12_VoicesNeverEmpty ==
    /\ voicesPromise.state \in {"pending", "resolved"}
    /\ voicesPromise.state = "resolved" => Len(voicesPromise.list) >= 1
    /\ ListingReported => voicesPromise.state = "resolved"

\* on Linux espeak-ng was missing and espeak printed nothing but its header
\* line; the list holds the synthetic default
C12_Witness ==
    /\ os = "linux"
    /\ listProcs["primary"].failed
    /\ listProcs["fallback"].spawned
    /\ listProcs["fallback"].closeSeen
    /\ listProcs["fallback"].output = <<"three">>
    /\ voicesPromise = [state |-> "resolved", list |-> <<DefaultVoice>>]

\* the listing failed altogether: the tool could not be started, nor, on
\* Linux, its fallback
ListingFailed ==
    /\ listProcs["primary"].failed
    /\ listProcs["primary"].errorSeen
    /\ os = "linux" => (/\ listProcs["fallback"].spawned
                        /\ listProcs["fallback"].failed
                        /\ listProcs["fallback"].errorSeen)

\* C13: on total listing failure listVoices resolves to exactly the default
\* record labelled with the platform, and the 'close' events of the failed
\* processes do not change that.
C13_LabelledDefaultOnFailure ==
    ListingFailed
    => voicesPromise = [state |-> "resolved", list |-> <<LabelledDefault(os)>>]

\* both tools failed on Linux and both 'close' events have been delivered
C13_Witness ==
    /\ os = "linux"
    /\ ListingFailed
    /\ listProcs["primary"].closeSeen
    /\ listProcs["fallback"].closeSeen
    /\ voicesPromise.list = <<[id |-> "default", name |-> "Default (Linux)"]>>

----------------------------------------------------------------------------
(* Claims about one speech request (checked under SpecRequest) *)

\* the command selects a voice: a -v entry, or a SelectVoice statement
VoiceSelected(cmd) ==
    \/ \E i \in DOMAIN cmd.args : cmd.args[i] = "-v"
    \/ \E i \in DOMAIN cmd.encoded.of :
         cmd.encoded.of[i] = "$s.SelectVoice($env:TTS_VOICE); "

\* the voice travels as an argument-vector entry of its own, or in TTS_VOICE
VoicePassedWhole(cmd, v) ==
    \/ \E i \in DOMAIN cmd.args :
         /\ i + 1 \in DOMAIN cmd.args
         /\ cmd.args[i] = "-v"
         /\ cmd.args[i + 1] = v
    \/ cmd.env.TTS_VOICE = v

\* C14: for every voice v passed to SystemTtsEngine.synthesize, an absent,
\* empty or "default" v gives the spawned tool no voice-selection argument
\* on any platform, and any other v is passed as an argument-vector entry of
\* its own or as an environment variable.
C14_VoiceOmittedUnlessNamed ==
    command.built =>
        IF opts.voice \in {"absent", "", "default"}
        THEN ~VoiceSelected(command.main)
        ELSE VoiceSelected(command.main)
             /\ VoicePassedWhole(command.main, opts.voice)

\* the text is in no argument-vector entry and in no piece of the script
TextNotInCommand(cmd, text) ==
    /\ cmd.program # text
    /\ \A i \in DOMAIN cmd.args : cmd.args[i] # text
    /\ \A i \in DOMAIN cmd.encoded.of : cmd.encoded.of[i] # text

\* C15: the command handed to the operating system is independent of the
\* request text: two synthesis calls that differ only in text get the same
\* program name, argument vector and encoded script, and the text reaches
\* the tool only as the content of the .txt input file (macOS, Linux) or as
\* the TTS_INPUT environment variable (Windows).
C15_CommandIndependentOfText ==
    command.built =>
        /\ command.main.program = command.twin.program
        /\ command.main.args = command.twin.args
        /\ command.main.encoded = command.twin.encoded
        /\ command.main.env.TTS_OUTPUT = command.twin.env.TTS_OUTPUT
        /\ command.main.env.TTS_VOICE = command.twin.env.TTS_VOICE
        /\ TextNotInCommand(command.main, opts.text)
        /\ TextNotInCommand(command.twin, OtherText(opts.text))
        /\ IF os = "win32"
           THEN command.main.env.TTS_INPUT = opts.text
                /\ command.main.inputFile = "none"
           ELSE command.main.inputFile = opts.text
                /\ command.main.env.TTS_INPUT = "unset"

C15_Witness ==
    /\ command.built
    /\ os = "win32"
    /\ opts.text = "$(reboot)"
    /\ command.main.env.TTS_INPUT # command.twin.env.TTS_INPUT

\* C16: for every requested format, supported or absent, a successful
\* SystemTtsEngine.synthesize returns format "wav"; the server's
\* Content-Type comes from the result's format (audio/wav), not from the
\* requested response_format, and the request is answered 200.
C16_AlwaysWav ==
    response.sent =>
        /\ response.result.format = "wav"
        /\ request.via = "server" =>
             /\ response.contentType = "audio/wav"
             /\ response.status = 200

C16_Witness ==
    /\ response.sent
    /\ request.via = "server"
    /\ request.format = "mp3"
    /\ opts.format = "mp3"
    /\ response.status = 200

\* C17: the speed handed to engine.synthesize by the server lies in
\* [0.25, 4.0]: a number below 0.25 becomes 0.25, a number above 4.0 becomes
\* 4.0, a number inside the range is unchanged, and a missing or non-numeric
\* speed becomes 1.0.
C17_SpeedClamped ==
    (opts.set /\ request.via = "server") =>
        /\ opts.speed.kind = "number"
        /\ opts.speed.q \in 1..16
        /\ IF request.speed.kind = "number"
           THEN /\ request.speed.q < 1 => opts.speed.q = 1
                /\ request.speed.q > 16 => opts.speed.q = 16
                /\ request.speed.q \in 1..16 => opts.speed.q = request.speed.q
           ELSE opts.speed.q = 4

C17_Witness ==
    /\ opts.set
    /\ request.via = "server"
    /\ request.speed.kind = "number"
    /\ request.speed.q = 17
    /\ opts.speed.q = 16

\* r is (speed - 1) * 5 rounded to the nearest integer, a half going up,
\* for a speed of q quarters
NearestToScaled(r, q) == (4 * r - 5 * (q - 4)) \in (0 - 1)..2

\* C18: on Windows the native rate is round((speed - 1) * 5) clamped to the
\* integers -10..10 for every speed handed to the engine; through the
\* server, a request speed of 10.0 gives rate 10, 1.0 gives rate 0, and
\* every request speed gives a rate within -10..10.
C18_WindowsRate ==
    (command.built /\ os = "win32") =>
        /\ command.main.rate \in (0 - 10)..10
        /\ \E r \in (0 - 60)..60 :
             /\ NearestToScaled(r, EngineSpeed(opts.speed))
             /\ command.main.rate = Max(0 - 10, Min(10, r))
        /\ command.main.encoded.of[5] = ToString(command.main.rate)
        /\ (request.via = "server" /\ request.speed.kind = "number") =>
             /\ request.speed.q = 40 => command.main.rate = 10
             /\ request.speed.q = 4 => command.main.rate = 0

C18_Witness ==
    /\ command.built
    /\ os = "win32"
    /\ request.via = "server"
    /\ request.speed = [kind |-> "number", q |-> 40]
    /\ command.main.rate = 10

\* the entry of an argument vector that follows the given flag
ArgAfter(args, flag) ==
    {args[i + 1] : i \in {j \in DOMAIN args : args[j] = flag /\ j + 1 \in DOMAIN args}}

\* C28: the native rate is round(200 * speed) on macOS and
\* round(175 * speed) on Linux; for speeds in [0.25, 4.0] it is a positive
\* integer within 50..800 and 44..700 respectively, it is 200 and 175 at
\* speed 1.0, and it does not decrease when the speed grows.
C28_WordsPerMinute ==
    (command.built /\ os \in {"darwin", "linux"}) =>
        LET q == EngineSpeed(opts.speed)
            perUnit == IF os = "darwin" THEN 200 ELSE 175
            rate == command.main.rate
        IN /\ (4 * rate - perUnit * q) \in (0 - 1)..2
           /\ ArgAfter(command.main.args, IF os = "darwin" THEN "-r" ELSE "-s")
                = {ToString(rate)}
           /\ q \in 1..16 =>
                /\ rate > 0
                /\ rate \in (IF os = "darwin" THEN 50..800 ELSE 44..700)
                /\ q = 4 => rate = perUnit
                /\ \A faster \in q..16 :
                     BuildCommand(os, opts.text, EngineVoice(opts.voice), faster).rate
                       >= rate

C28_Witness ==
    /\ command.built
    /\ os = "linux"
    /\ EngineSpeed(opts.speed) = 1
    /\ command.main.rate = 44

\* a blank string: empty, or whitespace only
Blank(v) == v \in {"", "  "}

\* C29 as stated: the server hands over the trimmed voice or defaultVoice,
\* and never an empty or blank voice unless defaultVoice itself is empty.
C29_AsStated ==
    (opts.set /\ request.via = "server") =>
        /\ request.voice \in {"alice", " alice "} => opts.voice = "alice"
        /\ request.voice = "default" => opts.voice = "default"
        /\ request.voice \in {"absent", "number", "", "  "}
             => opts.voice = request.defaultVoice
        /\ Blank(opts.voice) => request.defaultVoice = ""

\* C29: the voice handed to engine.synthesize by the server is the
\* request's voice without its surrounding whitespace when that is a
\* non-blank string, and defaultVoice in every other case (absent, not a
\* string, empty, whitespace only); it is empty or blank only when
\* defaultVoice itself is empty or blank.
C29_VoiceResolved ==
    (opts.set /\ request.via = "server") =>
        /\ request.voice \in {"alice", " alice "} => opts.voice = "alice"
        /\ request.voice = "default" => opts.voice = "default"
        /\ request.voice \in {"absent", "number", "", "  "}
             => opts.voice = request.defaultVoice
        /\ Blank(opts.voice) => (Blank(request.defaultVoice)
                                 /\ opts.voice = request.defaultVoice)

C29_Witness ==
    /\ opts.set
    /\ request.via = "server"
    /\ request.voice = " alice "
    /\ request.defaultVoice = "bob"
    /\ opts.voice = "alice"

----------------------------------------------------------------------------
(* TtsServer: GET /health and GET /v1/audio/voices beside the other routes *)

ProbeSlots == 1..MaxProbes

NoProbeAnswer == [status |-> 0, body |-> "none"]

IdleProbe ==
    [route |-> "none", pc |-> "idle", resp |-> NoProbeAnswer, atCeiling |-> FALSE]

HealthAnswerUnlessBusy ==
    IF AtCapacity(activeSynthesisCount, maxConcurrency)
    THEN [status |-> 429, body |-> "Too many concurrent synthesis requests"]
    ELSE [status |-> 200, body |-> "ok"]

\* res.json({ status: "ok" })
HealthAnswer == [status |-> 200, body |-> "ok"]

\* res.json({ voices })
VoicesAnswer == [status |-> 200, body |-> "voices"]

\* the catch block of the voices route
VoicesCatch(err) ==
    [status |-> 500,
     body |-> IF err.isError THEN err.message ELSE "Failed to list voices."]

\* a GET /health arrives and is answered in the same step
HealthGet(g) ==
    /\ probes[g].pc \in {"idle", "done"}
    /\ probes' = [probes EXCEPT ![g] =
                    [route |-> "health", pc |-> "done", resp |-> HealthAnswer,
                     atCeiling |-> activeSynthesisCount >= maxConcurrency]]

\* a GET /v1/audio/voices arrives; the handler runs to the await of
\* engine.listVoices(), or to its catch block when that call throws at once
VoicesGet(g, outcome, err) ==
    /\ probes[g].pc \in {"idle", "done"}
    /\ probes' = [probes EXCEPT ![g] =
                    IF outcome = "throwsSync"
                    THEN [route |-> "voices", pc |-> "done",
                          resp |-> VoicesCatch(err), atCeiling |-> FALSE]
                    ELSE [route |-> "voices", pc |-> "awaiting",
                          resp |-> NoProbeAnswer, atCeiling |-> FALSE]]

\* engine.listVoices() settles and the handler answers
VoicesSettle(g, outcome, err) ==
    /\ probes[g].pc = "awaiting"
    /\ outcome \in {"resolves", "rejects"}
    /\ probes' = [probes EXCEPT ![g].pc = "done",
                                ![g].resp = IF outcome = "resolves"
                                            THEN VoicesAnswer
                                            ELSE VoicesCatch(err)]

\* the inputs and engine outcomes of the speech requests made beside the GETs
RouteInputs == {"text", "blank"}

NextRoutes ==
    \/ \E r \in AnswerSlots, input \in RouteInputs, eng \in EngineOutcomes :
         SpeechArrive(r, input, eng, ExitCodeError)
         /\ UNCHANGED <<engineVars, voiceVars, requestVars, lmVars, pathVars,
                        modelVars, routeVars, shutdownVars>>
    \/ \E r \in AnswerSlots, eng \in EngineOutcomes :
         SynthesisSettle(r, eng, "ok", ExitCodeError)
         /\ UNCHANGED <<engineVars, voiceVars, requestVars, lmVars, pathVars,
                        modelVars, routeVars, shutdownVars>>
    \/ \E g \in ProbeSlots :
         HealthGet(g)
         /\ UNCHANGED <<serverVars, engineVars, voiceVars, requestVars, lmVars,
                        pathVars, modelVars, shutdownVars>>
    \/ \E g \in ProbeSlots, outcome \in EngineOutcomes, err \in EngineErrors :
         VoicesGet(g, outcome, err)
         /\ UNCHANGED <<serverVars, engineVars, voiceVars, requestVars, lmVars,
                        pathVars, modelVars, shutdownVars>>
    \/ \E g \in ProbeSlots, outcome \in EngineOutcomes, err \in EngineErrors :
         VoicesSettle(g, outcome, err)
         /\ UNCHANGED <<serverVars, engineVars, voiceVars, requestVars, lmVars,
                        pathVars, modelVars, shutdownVars>>
    \/ \E g \in ProbeSlots :
         ModelsArrive(g)
         /\ UNCHANGED <<serverVars, engineVars, voiceVars, requestVars, lmVars,
                        pathVars, routeVars, shutdownVars>>
    \/ \E g \in ProbeSlots :
         ModelsSettle(g, "resolves", DefaultModels)
         /\ UNCHANGED <<serverVars, engineVars, voiceVars, requestVars, lmVars,
                        pathVars, routeVars, shutdownVars>>

----------------------------------------------------------------------------
(* Claims about the GET routes (checked under SpecRoutes) *)

\* a GET request is taken or answered in this step
GetStep == probes' # probes \/ modelsReqs' # modelsReqs

\* what the speech route decides for a valid input from the counter alone
AdmittedByCount == activeSynthesisCount < maxConcurrency

\* C34: GET /health, GET /v1/audio/voices and GET /v1/models neither read
\* nor change activeSynthesisCount: they are served while the server is at
\* its synthesis ceiling (health always with 200 and status ok), and serving
\* them leaves the admission or refusal of every later speech request as it
\* would have been.
C34_GetsLeaveAdmissionAlone ==
    /\ [](\A g \in ProbeSlots :
            /\ probes[g].pc # "awaiting" => ENABLED HealthGet(g)
            /\ probes[g].pc # "awaiting"
                 => ENABLED VoicesGet(g, "resolves", ExitCodeError)
            /\ modelsReqs[g].pc # "awaiting" => ENABLED ModelsArrive(g)
            /\ probes[g].route = "health" => probes[g].resp = HealthAnswer)
    /\ [][/\ GetStep => UNCHANGED <<activeSynthesisCount, maxConcurrency, reqs>>
          /\ \A r \in Slots :
               (Arrives(r) /\ ~InvalidInput(reqs'[r].input))
               => /\ reqs'[r].admitted <=> AdmittedByCount
                  /\ reqs'[r].resp = RateLimited <=> ~AdmittedByCount]_vars

\* health was answered while a synthesis filled the ceiling, a voices and a
\* models request were answered too, and a speech request that came
\* afterwards was refused for the synthesis alone
C34_Witness ==
    /\ maxConcurrency >= 1
    /\ activeSynthesisCount = maxConcurrency
    /\ \E g \in ProbeSlots :
         /\ probes[g].route = "health"
         /\ probes[g].atCeiling
         /\ probes[g].resp = [status |-> 200, body |-> "ok"]
         /\ modelsReqs[g].pc = "done"
    /\ \E r \in Slots : reqs[r].resp = RateLimited

----------------------------------------------------------------------------
(* main: the shutdown handler of SIGINT and SIGTERM *)

RunIds == 1..MaxSignals

SignalNames == {"SIGINT", "SIGTERM"}

Modes == {"standalone", "plugin"}

AlreadyShuttingDownNever(flag) == FALSE

\* if (isShuttingDown) return;
AlreadyShuttingDown(flag) == flag

\* A signal is delivered and shutdown runs to its first await.  server.stop()
\* calls this.server.close(cb); close on a server that is not listening
\* hands ERR_SERVER_NOT_RUNNING to cb, so that stop() rejects and the
\* invocation of shutdown ends with that rejection.
Signal(sig) ==
    /\ ~exited
    /\ Len(signals) < MaxSignals
    /\ signals' = Append(signals, sig)
    /\ LET i == Len(signals) + 1
       IN
       IF AlreadyShuttingDown(isShuttingDown)
       THEN /\ runs' = [runs EXCEPT ![i] = "returned"]
            /\ UNCHANGED <<isShuttingDown, stopCalls, httpServer>>
       ELSE /\ isShuttingDown' = TRUE
            /\ stopCalls' = stopCalls + 1
            /\ IF httpServer = "listening"
               THEN /\ httpServer' = "closing"
                    /\ runs' = [runs EXCEPT ![i] = "awaitStop"]
               ELSE /\ runs' = [runs EXCEPT ![i] = "failed"]
                    /\ UNCHANGED httpServer
    /\ UNCHANGED <<mode, disposeCalls, exited>>

\* the last connection has ended: the callback of close runs without an
\* error, stop() resolves and shutdown goes on to the client disposal (plugin
\* mode) or to process.exit(0)
StopSettle(i) ==
    /\ ~exited
    /\ runs[i] = "awaitStop"
    /\ httpServer = "closing"
    /\ httpServer' = "closed"
    /\ IF mode = "plugin"
       THEN /\ disposeCalls' = disposeCalls + 1
            /\ runs' = [runs EXCEPT ![i] = "awaitDispose"]
            /\ UNCHANGED exited
       ELSE /\ runs' = [runs EXCEPT ![i] = "exited"]
            /\ exited' = TRUE
            /\ UNCHANGED disposeCalls
    /\ UNCHANGED <<mode, isShuttingDown, signals, stopCalls>>

\* client[Symbol.asyncDispose]() settles: process.exit(0), or the rejection
\* ends shutdown
DisposeSettle(i, ok) ==
    /\ ~exited
    /\ runs[i] = "awaitDispose"
    /\ runs' = [runs EXCEPT ![i] = IF ok THEN "exited" ELSE "failed"]
    /\ exited' = ok
    /\ UNCHANGED <<mode, isShuttingDown, signals, httpServer, stopCalls,
                   disposeCalls>>

NextShutdown ==
    \/ \E sig \in SignalNames :
         Signal(sig)
         /\ UNCHANGED <<serverVars, engineVars, voiceVars, requestVars, lmVars,
                        pathVars, modelVars, routeVars>>
    \/ \E i \in RunIds :
         StopSettle(i)
         /\ UNCHANGED <<serverVars, engineVars, voiceVars, requestVars, lmVars,
                        pathVars, modelVars, routeVars>>
    \/ \E i \in RunIds, ok \in BOOLEAN :
         DisposeSettle(i, ok)
         /\ UNCHANGED <<serverVars, engineVars, voiceVars, requestVars, lmVars,
                        pathVars, modelVars, routeVars>>

----------------------------------------------------------------------------
(* Claims about shutdown (checked under SpecShutdown) *)

\* the invocations of shutdown that got past the isShuttingDown test
StopSequences == {i \in RunIds : runs[i] \notin {"none", "returned"}}

\* C37: the shutdown handler installed in main runs its stop sequence at
\* most once: for any number and order of SIGINT and SIGTERM deliveries,
\* also when a second signal arrives while server.stop() is still pending,
\* server.stop() is invoked exactly once, and so is the client disposal in
\* plugin mode, which follows the end of server.stop().
C37_StopSequenceOnce ==
    /\ Cardinality(StopSequences) <= 1
    /\ stopCalls = (IF Len(signals) >= 1 THEN 1 ELSE 0)
    /\ disposeCalls <= 1
    /\ mode = "standalone" => disposeCalls = 0
    /\ (mode = "plugin" /\ httpServer = "closed") => disposeCalls = 1
    /\ \A i \in RunIds : runs[i] # "failed" \/ disposeCalls = 1

\* SIGINT started the stop sequence of a plugin and SIGTERM arrived while
\* server.stop() was pending
C37_Witness ==
    /\ mode = "plugin"
    /\ signals = <<"SIGINT", "SIGTERM">>
    /\ runs[1] = "awaitStop"
    /\ runs[2] = "returned"
    /\ httpServer = "closing"
    /\ stopCalls = 1

----------------------------------------------------------------------------
(* Initial states and specifications *)

\* a TtsServer after construction; the engine it is given is some TtsEngine
\* other than the ones modelled here
InitServer ==
    /\ maxConcurrency \in 0..MaxCeiling
    /\ activeSynthesisCount = 0
    /\ reqs = [r \in Slots |-> IdleRequest]
    /\ os = "none"
    /\ call = "idle"
    /\ promise = Unsettled
    /\ result = Unsettled
    /\ eventHandled = FALSE
    /\ procs = [p \in ProcNames |-> NotSpawned]
    /\ files = NoFiles
    /\ unlinkPending = 0
    /\ swallowed = 0
    /\ voicesPromise = NoVoices
    /\ listProcs = [p \in ProcNames |-> ListNotSpawned]
    /\ listHandled = FALSE
    /\ request = [via |-> "none", text |-> "none", voice |-> "absent",
                  format |-> "absent", speed |-> [kind |-> "absent", q |-> 0],
                  defaultVoice |-> "default"]
    /\ opts = NoOpts
    /\ command = NoCommand
    /\ response = NoAnswer
    /\ lmConfig = [client |-> FALSE, modelKey |-> "absent"]
    /\ modelLoaded = FALSE
    /\ lmCalls = [c \in LmCallIds |-> IdleLmCall]
    /\ attempts = [a \in AttemptIds |-> IdleAttempt]
    /\ issued = {}
    /\ touched = {}
    /\ modelsEngine = "default"
    /\ modelsReqs = [g \in GetSlots |-> IdleGet]
    /\ probes = [g \in ProbeSlots |-> IdleProbe]
    /\ mode = "standalone"
    /\ isShuttingDown = FALSE
    /\ signals = <<>>
    /\ runs = [i \in RunIds |-> "none"]
    /\ httpServer = "listening"
    /\ stopCalls = 0
    /\ disposeCalls = 0
    /\ exited = FALSE

\* the same server, about to receive requests of every kind
InitAnswers ==
    /\ maxConcurrency \in 0..MaxCeiling
    /\ activeSynthesisCount = 0
    /\ reqs = [r \in Slots |-> IdleRequest]
    /\ os = "none"
    /\ call = "idle"
    /\ promise = Unsettled
    /\ result = Unsettled
    /\ eventHandled = FALSE
    /\ procs = [p \in ProcNames |-> NotSpawned]
    /\ files = NoFiles
    /\ unlinkPending = 0
    /\ swallowed = 0
    /\ voicesPromise = NoVoices
    /\ listProcs = [p \in ProcNames |-> ListNotSpawned]
    /\ listHandled = FALSE
    /\ request = [via |-> "none", text |-> "none", voice |-> "absent",
                  format |-> "absent", speed |-> [kind |-> "absent", q |-> 0],
                  defaultVoice |-> "default"]
    /\ opts = NoOpts
    /\ command = NoCommand
    /\ response = NoAnswer
    /\ lmConfig = [client |-> FALSE, modelKey |-> "absent"]
    /\ modelLoaded = FALSE
    /\ lmCalls = [c \in LmCallIds |-> IdleLmCall]
    /\ attempts = [a \in AttemptIds |-> IdleAttempt]
    /\ issued = {}
    /\ touched = {}
    /\ modelsEngine = "default"
    /\ modelsReqs = [g \in GetSlots |-> IdleGet]
    /\ probes = [g \in ProbeSlots |-> IdleProbe]
    /\ mode = "standalone"
    /\ isShuttingDown = FALSE
    /\ signals = <<>>
    /\ runs = [i \in RunIds |-> "none"]
    /\ httpServer = "listening"
    /\ stopCalls = 0
    /\ disposeCalls = 0
    /\ exited = FALSE

\* a SystemTtsEngine after construction, on each platform, with no server
InitEngine ==
    /\ os \in Platforms
    /\ call = "idle"
    /\ promise = Unsettled
    /\ result = Unsettled
    /\ eventHandled = FALSE
    /\ procs = [p \in ProcNames |-> NotSpawned]
    /\ files = NoFiles
    /\ unlinkPending = 0
    /\ swallowed = 0
    /\ maxConcurrency = 0
    /\ activeSynthesisCount = 0
    /\ reqs = [r \in Slots |-> IdleRequest]
    /\ voicesPromise = NoVoices
    /\ listProcs = [p \in ProcNames |-> ListNotSpawned]
    /\ listHandled = FALSE
    /\ request = [via |-> "none", text |-> "none", voice |-> "absent",
                  format |-> "absent", speed |-> [kind |-> "absent", q |-> 0],
                  defaultVoice |-> "default"]
    /\ opts = NoOpts
    /\ command = NoCommand
    /\ response = NoAnswer
    /\ lmConfig = [client |-> FALSE, modelKey |-> "absent"]
    /\ modelLoaded = FALSE
    /\ lmCalls = [c \in LmCallIds |-> IdleLmCall]
    /\ attempts = [a \in AttemptIds |-> IdleAttempt]
    /\ issued = {}
    /\ touched = {}
    /\ modelsEngine = "default"
    /\ modelsReqs = [g \in GetSlots |-> IdleGet]
    /\ probes = [g \in ProbeSlots |-> IdleProbe]
    /\ mode = "standalone"
    /\ isShuttingDown = FALSE
    /\ signals = <<>>
    /\ runs = [i \in RunIds |-> "none"]
    /\ httpServer = "listening"
    /\ stopCalls = 0
    /\ disposeCalls = 0
    /\ exited = FALSE

\* a TtsServer over a SystemTtsEngine of some platform, no request yet
InitLive ==
    /\ os \in Platforms
    /\ call = "idle"
    /\ promise = Unsettled
    /\ result = Unsettled
    /\ eventHandled = FALSE
    /\ procs = [p \in ProcNames |-> NotSpawned]
    /\ files = NoFiles
    /\ unlinkPending = 0
    /\ swallowed = 0
    /\ maxConcurrency \in 0..MaxCeiling
    /\ activeSynthesisCount = 0
    /\ reqs = [r \in Slots |-> IdleRequest]
    /\ voicesPromise = NoVoices
    /\ listProcs = [p \in ProcNames |-> ListNotSpawned]
    /\ listHandled = FALSE
    /\ request = [via |-> "none", text |-> "none", voice |-> "absent",
                  format |-> "absent", speed |-> [kind |-> "absent", q |-> 0],
                  defaultVoice |-> "default"]
    /\ opts = NoOpts
    /\ command = NoCommand
    /\ response = NoAnswer
    /\ lmConfig = [client |-> FALSE, modelKey |-> "absent"]
    /\ modelLoaded = FALSE
    /\ lmCalls = [c \in LmCallIds |-> IdleLmCall]
    /\ attempts = [a \in AttemptIds |-> IdleAttempt]
    /\ issued = {}
    /\ touched = {}
    /\ modelsEngine = "default"
    /\ modelsReqs = [g \in GetSlots |-> IdleGet]
    /\ probes = [g \in ProbeSlots |-> IdleProbe]
    /\ mode = "standalone"
    /\ isShuttingDown = FALSE
    /\ signals = <<>>
    /\ runs = [i \in RunIds |-> "none"]
    /\ httpServer = "listening"
    /\ stopCalls = 0
    /\ disposeCalls = 0
    /\ exited = FALSE

\* an engine after construction, before listVoices is called: a
\* SystemTtsEngine on each platform, or a LmStudioTtsEngine (os = "none")
InitVoices ==
    /\ os \in Platforms \cup {"none"}
    /\ voicesPromise = NoVoices
    /\ listProcs = [p \in ProcNames |-> ListNotSpawned]
    /\ listHandled = FALSE
    /\ call = "idle"
    /\ promise = Unsettled
    /\ result = Unsettled
    /\ eventHandled = FALSE
    /\ procs = [p \in ProcNames |-> NotSpawned]
    /\ files = NoFiles
    /\ unlinkPending = 0
    /\ swallowed = 0
    /\ maxConcurrency = 0
    /\ activeSynthesisCount = 0
    /\ reqs = [r \in Slots |-> IdleRequest]
    /\ request = [via |-> "none", text |-> "none", voice |-> "absent",
                  format |-> "absent", speed |-> [kind |-> "absent", q |-> 0],
                  defaultVoice |-> "default"]
    /\ opts = NoOpts
    /\ command = NoCommand
    /\ response = NoAnswer
    /\ lmConfig = [client |-> FALSE, modelKey |-> "absent"]
    /\ modelLoaded = FALSE
    /\ lmCalls = [c \in LmCallIds |-> IdleLmCall]
    /\ attempts = [a \in AttemptIds |-> IdleAttempt]
    /\ issued = {}
    /\ touched = {}
    /\ modelsEngine = "default"
    /\ modelsReqs = [g \in GetSlots |-> IdleGet]
    /\ probes = [g \in ProbeSlots |-> IdleProbe]
    /\ mode = "standalone"
    /\ isShuttingDown = FALSE
    /\ signals = <<>>
    /\ runs = [i \in RunIds |-> "none"]
    /\ httpServer = "listening"
    /\ stopCalls = 0
    /\ disposeCalls = 0
    /\ exited = FALSE

\* a speech request about to be handled: through the server, or handed to
\* a SystemTtsEngine directly, on each platform
InitRequest ==
    /\ os \in Platforms
    /\ request \in ServerRequests \cup DirectRequests
    /\ opts = NoOpts
    /\ command = NoCommand
    /\ response = NoAnswer
    /\ call = "idle"
    /\ promise = Unsettled
    /\ result = Unsettled
    /\ eventHandled = FALSE
    /\ procs = [p \in ProcNames |-> NotSpawned]
    /\ files = NoFiles
    /\ unlinkPending = 0
    /\ swallowed = 0
    /\ maxConcurrency = 0
    /\ activeSynthesisCount = 0
    /\ reqs = [r \in Slots |-> IdleRequest]
    /\ voicesPromise = NoVoices
    /\ listProcs = [p \in ProcNames |-> ListNotSpawned]
    /\ listHandled = FALSE
    /\ lmConfig = [client |-> FALSE, modelKey |-> "absent"]
    /\ modelLoaded = FALSE
    /\ lmCalls = [c \in LmCallIds |-> IdleLmCall]
    /\ attempts = [a \in AttemptIds |-> IdleAttempt]
    /\ issued = {}
    /\ touched = {}
    /\ modelsEngine = "default"
    /\ modelsReqs = [g \in GetSlots |-> IdleGet]
    /\ probes = [g \in ProbeSlots |-> IdleProbe]
    /\ mode = "standalone"
    /\ isShuttingDown = FALSE
    /\ signals = <<>>
    /\ runs = [i \in RunIds |-> "none"]
    /\ httpServer = "listening"
    /\ stopCalls = 0
    /\ disposeCalls = 0
    /\ exited = FALSE

\* a LmStudioTtsEngine as constructed, with or without client and modelKey
InitLm ==
    /\ lmConfig \in [client : BOOLEAN, modelKey : ModelKeys]
    /\ modelLoaded = FALSE
    /\ lmCalls = [c \in LmCallIds |-> IdleLmCall]
    /\ os = "none"
    /\ call = "idle"
    /\ promise = Unsettled
    /\ result = Unsettled
    /\ eventHandled = FALSE
    /\ procs = [p \in ProcNames |-> NotSpawned]
    /\ files = NoFiles
    /\ unlinkPending = 0
    /\ swallowed = 0
    /\ maxConcurrency = 0
    /\ activeSynthesisCount = 0
    /\ reqs = [r \in Slots |-> IdleRequest]
    /\ voicesPromise = NoVoices
    /\ listProcs = [p \in ProcNames |-> ListNotSpawned]
    /\ listHandled = FALSE
    /\ request = [via |-> "none", text |-> "none", voice |-> "absent",
                  format |-> "absent", speed |-> [kind |-> "absent", q |-> 0],
                  defaultVoice |-> "default"]
    /\ opts = NoOpts
    /\ command = NoCommand
    /\ response = NoAnswer
    /\ attempts = [a \in AttemptIds |-> IdleAttempt]
    /\ issued = {}
    /\ touched = {}
    /\ modelsEngine = "default"
    /\ modelsReqs = [g \in GetSlots |-> IdleGet]
    /\ probes = [g \in ProbeSlots |-> IdleProbe]
    /\ mode = "standalone"
    /\ isShuttingDown = FALSE
    /\ signals = <<>>
    /\ runs = [i \in RunIds |-> "none"]
    /\ httpServer = "listening"
    /\ stopCalls = 0
    /\ disposeCalls = 0
    /\ exited = FALSE

\* a TtsServer constructed over some engine, no request received yet
InitModels ==
    /\ lmConfig = [client |-> FALSE, modelKey |-> "absent"]
    /\ modelLoaded = FALSE
    /\ lmCalls = [c \in LmCallIds |-> IdleLmCall]
    /\ os = "none"
    /\ call = "idle"
    /\ promise = Unsettled
    /\ result = Unsettled
    /\ eventHandled = FALSE
    /\ procs = [p \in ProcNames |-> NotSpawned]
    /\ files = NoFiles
    /\ unlinkPending = 0
    /\ swallowed = 0
    /\ maxConcurrency = 0
    /\ activeSynthesisCount = 0
    /\ reqs = [r \in Slots |-> IdleRequest]
    /\ voicesPromise = NoVoices
    /\ listProcs = [p \in ProcNames |-> ListNotSpawned]
    /\ listHandled = FALSE
    /\ request = [via |-> "none", text |-> "none", voice |-> "absent",
                  format |-> "absent", speed |-> [kind |-> "absent", q |-> 0],
                  defaultVoice |-> "default"]
    /\ opts = NoOpts
    /\ command = NoCommand
    /\ response = NoAnswer
    /\ attempts = [a \in AttemptIds |-> IdleAttempt]
    /\ issued = {}
    /\ touched = {}
    /\ modelsEngine \in ModelsEngines
    /\ modelsReqs = [g \in GetSlots |-> IdleGet]
    /\ probes = [g \in ProbeSlots |-> IdleProbe]
    /\ mode = "standalone"
    /\ isShuttingDown = FALSE
    /\ signals = <<>>
    /\ runs = [i \in RunIds |-> "none"]
    /\ httpServer = "listening"
    /\ stopCalls = 0
    /\ disposeCalls = 0
    /\ exited = FALSE

\* main has started the server and installed the handler
InitShutdown ==
    /\ lmConfig = [client |-> FALSE, modelKey |-> "absent"]
    /\ modelLoaded = FALSE
    /\ lmCalls = [c \in LmCallIds |-> IdleLmCall]
    /\ os = "none"
    /\ call = "idle"
    /\ promise = Unsettled
    /\ result = Unsettled
    /\ eventHandled = FALSE
    /\ procs = [p \in ProcNames |-> NotSpawned]
    /\ files = NoFiles
    /\ unlinkPending = 0
    /\ swallowed = 0
    /\ maxConcurrency = 0
    /\ activeSynthesisCount = 0
    /\ reqs = [r \in Slots |-> IdleRequest]
    /\ voicesPromise = NoVoices
    /\ listProcs = [p \in ProcNames |-> ListNotSpawned]
    /\ listHandled = FALSE
    /\ request = [via |-> "none", text |-> "none", voice |-> "absent",
                  format |-> "absent", speed |-> [kind |-> "absent", q |-> 0],
                  defaultVoice |-> "default"]
    /\ opts = NoOpts
    /\ command = NoCommand
    /\ response = NoAnswer
    /\ attempts = [a \in AttemptIds |-> IdleAttempt]
    /\ issued = {}
    /\ touched = {}
    /\ modelsEngine = "default"
    /\ modelsReqs = [g \in GetSlots |-> IdleGet]
    /\ probes = [g \in ProbeSlots |-> IdleProbe]
    /\ mode \in Modes
    /\ isShuttingDown = FALSE
    /\ signals = <<>>
    /\ runs = [i \in RunIds |-> "none"]
    /\ httpServer = "listening"
    /\ stopCalls = 0
    /\ disposeCalls = 0
    /\ exited = FALSE

\* a server just constructed around an engine that inherits listModels
InitRoutes ==
    /\ lmConfig = [client |-> FALSE, modelKey |-> "absent"]
    /\ modelLoaded = FALSE
    /\ lmCalls = [c \in LmCallIds |-> IdleLmCall]
    /\ os = "none"
    /\ call = "idle"
    /\ promise = Unsettled
    /\ result = Unsettled
    /\ eventHandled = FALSE
    /\ procs = [p \in ProcNames |-> NotSpawned]
    /\ files = NoFiles
    /\ unlinkPending = 0
    /\ swallowed = 0
    /\ maxConcurrency \in 0..MaxCeiling
    /\ activeSynthesisCount = 0
    /\ reqs = [r \in Slots |-> IdleRequest]
    /\ voicesPromise = NoVoices
    /\ listProcs = [p \in ProcNames |-> ListNotSpawned]
    /\ listHandled = FALSE
    /\ request = [via |-> "none", text |-> "none", voice |-> "absent",
                  format |-> "absent", speed |-> [kind |-> "absent", q |-> 0],
                  defaultVoice |-> "default"]
    /\ opts = NoOpts
    /\ command = NoCommand
    /\ response = NoAnswer
    /\ attempts = [a \in AttemptIds |-> IdleAttempt]
    /\ issued = {}
    /\ touched = {}
    /\ modelsEngine = "default"
    /\ modelsReqs = [g \in GetSlots |-> IdleGet]
    /\ probes = [g \in ProbeSlots |-> IdleProbe]
    /\ mode = "standalone"
    /\ isShuttingDown = FALSE
    /\ signals = <<>>
    /\ runs = [i \in RunIds |-> "none"]
    /\ httpServer = "listening"
    /\ stopCalls = 0
    /\ disposeCalls = 0
    /\ exited = FALSE

\* one SystemTtsEngine of some platform, no synthesize call made yet
InitPaths ==
    /\ lmConfig = [client |-> FALSE, modelKey |-> "absent"]
    /\ modelLoaded = FALSE
    /\ lmCalls = [c \in LmCallIds |-> IdleLmCall]
    /\ os \in Platforms
    /\ call = "idle"
    /\ promise = Unsettled
    /\ result = Unsettled
    /\ eventHandled = FALSE
    /\ procs = [p \in ProcNames |-> NotSpawned]
    /\ files = NoFiles
    /\ unlinkPending = 0
    /\ swallowed = 0
    /\ maxConcurrency = 0
    /\ activeSynthesisCount = 0
    /\ reqs = [r \in Slots |-> IdleRequest]
    /\ voicesPromise = NoVoices
    /\ listProcs = [p \in ProcNames |-> ListNotSpawned]
    /\ listHandled = FALSE
    /\ request = [via |-> "none", text |-> "none", voice |-> "absent",
                  format |-> "absent", speed |-> [kind |-> "absent", q |-> 0],
                  defaultVoice |-> "default"]
    /\ opts = NoOpts
    /\ command = NoCommand
    /\ response = NoAnswer
    /\ attempts = [a \in AttemptIds |-> IdleAttempt]
    /\ issued = {}
    /\ touched = {}
    /\ modelsEngine = "default"
    /\ modelsReqs = [g \in GetSlots |-> IdleGet]
    /\ probes = [g \in ProbeSlots |-> IdleProbe]
    /\ mode = "standalone"
    /\ isShuttingDown = FALSE
    /\ signals = <<>>
    /\ runs = [i \in RunIds |-> "none"]
    /\ httpServer = "listening"
    /\ stopCalls = 0
    /\ disposeCalls = 0
    /\ exited = FALSE

\* the server under test is given some TtsEngine of its own
SpecServer == InitServer /\ [][NextServer]_vars

\* one synthesize call on each platform
SpecEngine == InitEngine /\ [][NextEngine]_vars

\* one listVoices call on each engine
SpecVoices == InitVoices /\ [][NextVoices]_vars

\* one speech request from its body to the spawned command and the answer
SpecRequest == InitRequest /\ [][NextRequest]_vars

\* any number of synthesize calls, in sequence or overlapping, on one engine
SpecLm == InitLm /\ [][NextLm]_vars

\* the speech route with every kind of input and of engine failure
SpecAnswers == InitAnswers /\ [][NextAnswers]_vars

\* overlapping synthesize calls on one SystemTtsEngine and their paths
SpecPaths == InitPaths /\ [][NextPaths]_vars

\* GET /v1/models requests against one engine
SpecModels == InitModels /\ [][NextModels]_vars

SpecRoutes == InitRoutes /\ [][NextRoutes]_vars

SpecShutdown == InitShutdown /\ [][NextShutdown]_vars

\* one speech request served by a SystemTtsEngine whose processes deliver
\* their events and whose file operations complete
SpecLive == InitLive /\ [][NextLive]_vars /\ LiveFairness

====
